---- MODULE Spec2Model ----
(***************************************************************************)
(* Connection engine of netbox: TcpServer (reactor, send queues, keepalive *)
(* supervisor), ApplicationServer (per-connection protocol instances,      *)
(* delayed close) and WebSocketServer (broadcast).                          *)
(*                                                                         *)
(* Threads: the reactor (TcpServer::run), the keepalive thread             *)
(* (TcpServer::checkHeartbeats) and the detached threads started by        *)
(* ApplicationServer::closeClientConnection.  A step is one event handler, *)
(* cut where the handler waits for a lock or where the code leaves a       *)
(* window between two system calls that another thread can enter.          *)
(*                                                                         *)
(* Bytes: an outbound frame is identified by [k, n, by] (kind, sequence    *)
(* number, fd whose protocol instance packed it); a piece of a frame is    *)
(* [id, lo, hi], the bytes lo..hi of it.  wire[f] is the byte stream the   *)
(* kernel accepted for the connection currently on fd f, adjacent pieces   *)
(* of one frame merged, so that it is a byte sequence and not a record of  *)
(* the write calls.                                                        *)
(***************************************************************************)
EXTENDS Integers, Sequences, FiniteSets, TLC

\* ------------------------------------------------------------------ bounds
MaxFd == 2            \* file descriptors the kernel hands out: 1..MaxFd
MaxFrames == 2        \* outbound frames produced in one behaviour
MaxClosers == 2       \* delayed close threads alive per fd
FrameLen == 2         \* bytes of a text, control or reply frame
MaxEvents == 5        \* inputs delivered in one behaviour: connections, chunks,
                      \* hang-ups, timer ticks, clock steps

\* ------------------------------------------------------- program constants
MagicLen == 4         \* sizeof(uint32_t) of HEARTBEAT_MAGIC
HeartbeatTimeout == 60  \* m_heartbeatTimeout, seconds
MsPerSecond == 1000   \* duration_cast<std::chrono::seconds>

Fds == 1..MaxFd
NoTime == -1
\* steady_clock instants in milliseconds: an idle time of 60.5 s exceeds the
\* timeout but not in whole seconds; 61 s exceeds it in whole seconds.
Instants == {0, 60500, 61000}

\* the kinds of chunk a peer sends (one protocol unit per read)
\*   hs     GET ... Upgrade: websocket ... Sec-WebSocket-Key
\*   hsbad  GET ... Upgrade: websocket without a key
\*   text   masked TEXT frame, valid UTF-8
\*   close  masked CLOSE frame
\*   badop  frame with an opcode the parser does not handle
\*   resp   one complete RESP array command ('*' first)
\*   junk   anything else
ChunkKinds == {"hs", "hsbad", "text", "close", "badop", "resp", "junk"}
\* the servers: what each constructor and initializeProtocolRouter leave
\*   ws    the server is a WebSocketServer
\*   resp  m_router->getProtocol(3) is a PureRedisProtocol
\*   hb    m_heartbeatEnabled
WebSocketApplication == [ws |-> TRUE, resp |-> FALSE, hb |-> FALSE]
RespApplication == [ws |-> FALSE, resp |-> TRUE, hb |-> FALSE]
PlainApplication == [ws |-> FALSE, resp |-> FALSE, hb |-> TRUE]
Applications == {WebSocketApplication, RespApplication, PlainApplication}

\* what the peers of each server speak: browsers talk to a WebSocketServer,
\* Redis clients to the server that registers PureRedisProtocol
PeerChunks(ws, resp) ==
    IF ws THEN ChunkKinds \ {"resp"}
    ELSE IF resp THEN {"resp", "junk"}
    ELSE {"junk"}

VARIABLES
    isWebSocket,          \* the server is a WebSocketServer
    respRegistered,       \* m_router->getProtocol(3) is a PureRedisProtocol
    m_heartbeatEnabled,   \* TcpServer::m_heartbeatEnabled
    now,                  \* steady_clock::now(), ms
    nframes,              \* frames produced so far
    nevents,              \* inputs delivered so far
    osOpen,               \* kernel: fd is an open socket
    wire,                 \* kernel: bytes accepted for the connection on fd
    io,                   \* multiplexer registration: "none", "R", "RW"
    m_clients,            \* TcpServer::m_clients (connection table)
    m_lastActive,         \* TcpServer::m_lastActive
    m_sendBuffers,        \* TcpServer::m_sendBuffers
    m_sendMutexes,        \* TcpServer::m_sendMutexes (keys)
    m_clientProtocols,    \* ApplicationServer::m_clientProtocols
    m_clientSendMutexes,  \* ApplicationServer::m_clientSendMutexes (keys)
    m_clientBuffers,      \* PureRedisProtocol::m_clientBuffers (keys)
    wsClients,            \* WebSocketServer::m_clients (broadcast set)
    closers,              \* closeClientConnection threads per fd
    rpc,                  \* reactor thread: where it is
    kpc,                  \* keepalive thread: where it is
    m_running,            \* TcpServer::m_running
    stopper,              \* the thread that calls stop(): where it is
    onCloseCalls,         \* times `if (m_onClose) m_onClose(fd)` was reached
                          \* for the connection on fd
    proto,                \* one connection's protocol pipeline, see SpecWs
    redis                 \* the PureRedisProtocol pipeline, see SpecResp

vars == <<isWebSocket, respRegistered, m_heartbeatEnabled, now, nframes, nevents, osOpen,
          wire, io, m_clients, m_lastActive, m_sendBuffers, m_sendMutexes,
          m_clientProtocols, m_clientSendMutexes, m_clientBuffers, wsClients,
          closers, rpc, kpc, m_running, stopper, onCloseCalls, proto, redis>>

config == <<isWebSocket, respRegistered, m_heartbeatEnabled>>

\* ----------------------------------------------------------------- frames
NoFrame == [k |-> "none", n |-> 0, by |-> 0]

FrameSize(id) == IF id.k = "hb" THEN MagicLen ELSE FrameLen

WholeFrame(id) == [id |-> id, lo |-> 1, hi |-> FrameSize(id)]

PieceLen(c) == c.hi - c.lo + 1

\* the first k bytes of a piece, and what is left after them
Front(c, k) == [c EXCEPT !.hi = c.lo + k - 1]
Back(c, k) == [c EXCEPT !.lo = c.lo + k]

\* the kernel's stream after it accepted piece c
WireAppend(w, c) ==
    IF w # <<>> /\ w[Len(w)].id = c.id /\ w[Len(w)].hi + 1 = c.lo
    THEN [w EXCEPT ![Len(w)].hi = c.hi]
    ELSE Append(w, c)

RECURSIVE WireAppendAll(_, _)
WireAppendAll(w, cs) ==
    IF cs = <<>> THEN w ELSE WireAppendAll(WireAppend(w, Head(cs)), Tail(cs))

\* ----------------------------------------------------------------- kernel
\* send(2) on a non-blocking socket: n > 0 bytes accepted, EAGAIN, or an error
\* (EBADF on a closed fd, ECONNRESET / EPIPE on an open one).
SendResults(open, c) ==
    IF ~open THEN {[r |-> "err", n |-> 0]}
    ELSE {[r |-> "sent", n |-> k] : k \in 1..PieceLen(c)}
         \cup {[r |-> "again", n |-> 0], [r |-> "err", n |-> 0]}

\* close(2): the socket is gone and epoll drops its registration
OsClose(open, f) == [open EXCEPT ![f] = FALSE]
IoAfterClose(reg, f) == [reg EXCEPT ![f] = "none"]

\* ------------------------------------------------------------ multiplexer
addfd(reg, f, mask) == [reg EXCEPT ![f] = mask]
removefd(reg, f) == [reg EXCEPT ![f] = "none"]
modifyFd(reg, f, mask) == IF reg[f] = "none" THEN reg ELSE [reg EXCEPT ![f] = mask]

\* ------------------------------------------------------ flushSendBuffer
\* Every way the loop of flushSendBuffer can end on queue q: the pieces the
\* kernel accepted (out), the queue left (q), whether send failed with a hard
\* error (err) and whether the loop ran at all (ran: the early return at the
\* top skips the final modifyFd).
FlushAfterPopsShort(open, q, n) ==
    \* as FlushAfter, but a short write pops the head like a full one
    LET done == SubSeq(q, 1, n)
        rest == SubSeq(q, n + 1, Len(q))
    IN  IF n = Len(q)
        THEN {[out |-> done, q |-> <<>>, err |-> FALSE, ran |-> TRUE]}
        ELSE {[out |-> done, q |-> rest, err |-> FALSE, ran |-> TRUE],
              [out |-> done, q |-> rest, err |-> TRUE, ran |-> TRUE]}
             \cup {[out |-> Append(done, Front(rest[1], k)),
                    q |-> Tail(rest),
                    err |-> FALSE, ran |-> TRUE] : k \in 1..(PieceLen(rest[1]) - 1)}

FlushAfter(open, q, n) ==
    \* n chunks were sent whole; what happens at chunk n+1
    LET done == SubSeq(q, 1, n)
        rest == SubSeq(q, n + 1, Len(q))
    IN  IF n = Len(q)
        THEN {[out |-> done, q |-> <<>>, err |-> FALSE, ran |-> TRUE]}
        ELSE {[out |-> done, q |-> rest, err |-> FALSE, ran |-> TRUE],
              [out |-> done, q |-> rest, err |-> TRUE, ran |-> TRUE]}
             \cup {[out |-> Append(done, Front(rest[1], k)),
                    q |-> <<Back(rest[1], k)>> \o Tail(rest),
                    err |-> FALSE, ran |-> TRUE] : k \in 1..(PieceLen(rest[1]) - 1)}

flushSendBuffer(open, q) ==
    IF q = <<>> THEN {[out |-> <<>>, q |-> <<>>, err |-> FALSE, ran |-> FALSE]}
    ELSE IF ~open THEN {[out |-> <<>>, q |-> q, err |-> TRUE, ran |-> TRUE]}
    ELSE UNION {FlushAfter(open, q, n) : n \in 0..Len(q)}

\* the registration flushSendBuffer leaves: WRITE is dropped when the queue
\* was drained
IoAfterFlush(reg, f, fl) ==
    IF fl.ran /\ ~fl.err /\ fl.q = <<>> THEN modifyFd(reg, f, "R") ELSE reg

\* the registration sendData leaves after flushSendBuffer returned normally
IoAfterSendData(reg, f, fl) ==
    IF fl.q # <<>> THEN modifyFd(IoAfterFlush(reg, f, fl), f, "RW")
    ELSE IoAfterFlush(reg, f, fl)

\* -------------------------------------------------------------- keepalive
\* checkHeartbeats' test on one connection
HeartbeatExpired(last, tnow) ==
    \/ last = NoTime
    \/ (tnow - last) \div MsPerSecond > HeartbeatTimeout

\* ------------------------------------------------------------------- Init
\* no PureRedisProtocol pipeline under observation
NoRedis == [alive |-> TRUE]

\* no protocol pipeline under observation
NoProto == [state_ |-> "none"]

IdleR == [op |-> "idle", fd |-> 0, frame |-> NoFrame, todo |-> <<>>,
          lo |-> 0, after |-> "none"]
IdleK == [op |-> "idle", fd |-> 0, frame |-> NoFrame, todo |-> {}, tnow |-> 0]

Init ==
    /\ \E a \in Applications :
          /\ isWebSocket = a.ws
          /\ respRegistered = a.resp
          /\ m_heartbeatEnabled = a.hb
    /\ now = 0
    /\ nframes = 0
    /\ nevents = 0
    /\ osOpen = [f \in Fds |-> FALSE]
    /\ wire = [f \in Fds |-> <<>>]
    /\ io = [f \in Fds |-> "none"]
    /\ m_clients = {}
    /\ m_lastActive = [f \in Fds |-> NoTime]
    /\ m_sendBuffers = [f \in Fds |-> <<>>]
    /\ m_sendMutexes = {}
    /\ m_clientProtocols = [f \in Fds |-> "none"]
    /\ m_clientSendMutexes = {}
    /\ m_clientBuffers = {}
    /\ wsClients = {}
    /\ closers = [f \in Fds |-> [a |-> 0, b |-> 0]]
    /\ rpc = IdleR
    /\ kpc = IdleK
    /\ m_running = TRUE
    /\ stopper = "none"
    /\ onCloseCalls = [f \in Fds |-> 0]
    /\ proto = NoProto
    /\ redis = NoRedis


\* ---------------------------------------------------------------- helpers
\* the environment delivers one more input
Deliver == nevents < MaxEvents /\ nevents' = nevents + 1

RECURSIVE Ascending(_)
\* iteration order of std::set<int>
Ascending(S) ==
    IF S = {} THEN <<>>
    ELSE LET m == CHOOSE x \in S : \A y \in S : x <= y
         IN  <<m>> \o Ascending(S \ {m})

\* m_mutex is held by the keepalive thread for a whole checkHeartbeats call
MutexFree == kpc.op = "idle"

\* the send lock of f (getSendMutex(f)) is held between steps only by a thread
\* waiting inside flushSendBuffer to run handleClose
SendLockFreeForReactor(f) == ~(kpc.op = "flushClose" /\ kpc.fd = f)
SendLockFreeForKeepalive(f) == ~(rpc.op = "flushClose" /\ rpc.fd = f)

ClosersOf(f) == closers[f].a + closers[f].b

\* ------------------------------------------------- TcpServer::handleClose
\* as handleClose, but m_sendBuffers.clear() in place of erase(client_fd)
handleCloseClearsAll(f) ==
    IF f \in m_clients
    THEN /\ m_sendBuffers' = [g \in Fds |-> <<>>]
         /\ m_sendMutexes' = m_sendMutexes \ {f}
         /\ osOpen' = OsClose(osOpen, f)
         /\ m_clients' = m_clients \ {f}
         /\ m_lastActive' = [m_lastActive EXCEPT ![f] = NoTime]
         /\ onCloseCalls' = [onCloseCalls EXCEPT ![f] = @ + 1]
    ELSE UNCHANGED <<m_sendBuffers, m_sendMutexes, osOpen, m_clients, m_lastActive,
                     onCloseCalls>>

\* everything handleClose changes except the multiplexer registration
handleClose(f) ==
    IF f \in m_clients
    THEN /\ m_sendBuffers' = [m_sendBuffers EXCEPT ![f] = <<>>]
         /\ m_sendMutexes' = m_sendMutexes \ {f}
         /\ osOpen' = OsClose(osOpen, f)
         /\ m_clients' = m_clients \ {f}
         /\ m_lastActive' = [m_lastActive EXCEPT ![f] = NoTime]
         /\ onCloseCalls' = [onCloseCalls EXCEPT ![f] = @ + 1]
    ELSE UNCHANGED <<m_sendBuffers, m_sendMutexes, osOpen, m_clients, m_lastActive,
                     onCloseCalls>>

IoAfterHandleClose(f) == IF f \in m_clients THEN removefd(io, f) ELSE io

\* ------------------------------------------------ TcpServer::handleAccept
\* one iteration of the accept loop: the kernel hands out a free descriptor
HandleAccept(f) ==
    /\ Deliver
    /\ rpc.op = "idle" /\ m_running
    /\ MutexFree
    /\ ~osOpen[f]
    /\ osOpen' = [osOpen EXCEPT ![f] = TRUE]
    /\ wire' = [wire EXCEPT ![f] = <<>>]
    /\ m_clients' = m_clients \cup {f}
    /\ m_lastActive' = [m_lastActive EXCEPT ![f] = now]
    /\ io' = addfd(io, f, "R")
    /\ m_clientSendMutexes' = m_clientSendMutexes \cup {f}
    /\ onCloseCalls' = [onCloseCalls EXCEPT ![f] = 0]
    /\ UNCHANGED <<config, m_running, stopper, proto, redis, now, nframes, m_sendBuffers, m_sendMutexes,
                   m_clientProtocols, m_clientBuffers, wsClients, closers, rpc, kpc>>

\* --------------------------- handleRead: recv() <= 0, and the ERROR event
HandleReadClose(f) ==
    /\ Deliver
    /\ rpc.op = "idle" /\ m_running
    /\ MutexFree
    /\ osOpen[f]
    /\ io[f] # "none"
    /\ handleClose(f)
    /\ io' = IoAfterHandleClose(f)
    /\ UNCHANGED <<config, m_running, stopper, proto, redis, now, nframes, wire, m_clientProtocols,
                   m_clientSendMutexes, m_clientBuffers, wsClients, closers, rpc, kpc>>

\* ---------------------------------------- direct ::send of a whole frame
\* the streams a single unqueued ::send of frame id can leave on f: nothing
\* (EAGAIN, error) or the first k bytes; what was not accepted is dropped
DirectSend(f, id) ==
    {wire[f]} \cup
    {WireAppend(wire[f], Front(WholeFrame(id), r.n)) :
        r \in {x \in SendResults(osOpen[f], WholeFrame(id)) : x.r = "sent"}}

\* --------------------------------- ApplicationServer::closeClientConnection
\* the synchronous part leaves the instance CLOSED; a CLOSE frame is sent
\* only when the instance was not CLOSED yet.  Here the callers have already
\* set CLOSED, so it only starts the delayed thread.
SpawnClosers(f, k) == [closers EXCEPT ![f].a = @ + k]

\* --------------------------------------------- handleRead, recv() > 0
\* RESP chunk handled by the router's PureRedisProtocol (one instance for
\* all connections): the reply goes out by sendDirectResponse
ReadResp(f) ==
    /\ Deliver
    /\ rpc.op = "idle" /\ m_running
    /\ osOpen[f] /\ io[f] # "none"
    /\ respRegistered /\ "resp" \in PeerChunks(isWebSocket, respRegistered)
    /\ nframes < MaxFrames
    /\ m_lastActive' = [m_lastActive EXCEPT ![f] = now]
    /\ m_clientBuffers' = m_clientBuffers \cup {f}
    /\ nframes' = nframes + 1
    /\ \E w \in DirectSend(f, [k |-> "reply", n |-> nframes + 1, by |-> 0]) :
          wire' = [wire EXCEPT ![f] = w]
    /\ UNCHANGED <<config, m_running, stopper, proto, redis, onCloseCalls, now, osOpen, io, m_clients, m_sendBuffers, m_sendMutexes,
                   m_clientProtocols, m_clientSendMutexes, wsClients, closers, rpc, kpc>>

\* first chunk of a connection without an instance: a handshake request
\* creates the connection's WebSocketProtocol and feeds it
ReadHandshake(f, kind) ==
    /\ Deliver
    /\ rpc.op = "idle" /\ m_running
    /\ osOpen[f] /\ io[f] # "none"
    /\ kind \in {"hs", "hsbad"} \cap PeerChunks(isWebSocket, respRegistered)
    /\ m_clientProtocols[f] = "none"
    /\ f \in m_clients
    /\ m_lastActive' = [m_lastActive EXCEPT ![f] = now]
    /\ IF kind = "hs"
       THEN \* 101 response through the raw-frame callback, then OPEN
            /\ m_clientProtocols' = [m_clientProtocols EXCEPT ![f] = "OPEN"]
            /\ \E w \in DirectSend(f, [k |-> "101", n |-> 0, by |-> f]) :
                  wire' = [wire EXCEPT ![f] = w]
            /\ UNCHANGED <<closers, nframes>>
       ELSE \* CLOSED; the error callback and the CLOSED check both call
            \* closeClientConnection
            /\ ClosersOf(f) + 2 <= MaxClosers
            /\ m_clientProtocols' = [m_clientProtocols EXCEPT ![f] = "CLOSED"]
            /\ closers' = SpawnClosers(f, 2)
            /\ UNCHANGED <<nframes, wire>>
    /\ UNCHANGED <<config, m_running, stopper, proto, redis, onCloseCalls, now, osOpen, io, m_clients, m_sendBuffers, m_sendMutexes,
                   m_clientSendMutexes, m_clientBuffers, wsClients, rpc, kpc>>

\* chunk for a connection without an instance that is no handshake: the
\* fallback hands it to PureRedisProtocol when registered; nothing else
ReadUnknown(f) ==
    /\ Deliver
    /\ rpc.op = "idle" /\ m_running
    /\ osOpen[f] /\ io[f] # "none"
    /\ m_clientProtocols[f] = "none"
    /\ m_lastActive' = [m_lastActive EXCEPT ![f] = now]
    /\ m_clientBuffers' = IF respRegistered /\ f \in m_clients
                          THEN m_clientBuffers \cup {f} ELSE m_clientBuffers
    /\ UNCHANGED <<config, m_running, stopper, proto, redis, onCloseCalls, now, nframes, osOpen, wire, io, m_clients, m_sendBuffers,
                   m_sendMutexes, m_clientProtocols, m_clientSendMutexes, wsClients,
                   closers, rpc, kpc>>


\* chunk for a connection whose instance is OPEN: one frame
ReadFrame(f, kind) ==
    /\ Deliver
    /\ rpc.op = "idle" /\ m_running
    /\ osOpen[f] /\ io[f] # "none"
    /\ kind \in {"text", "close", "badop"} \cap PeerChunks(isWebSocket, respRegistered)
    /\ m_clientProtocols[f] = "OPEN"
    /\ m_lastActive' = [m_lastActive EXCEPT ![f] = now]
    /\ CASE kind = "text" /\ isWebSocket ->
              \* onPacketReceived: join the broadcast set, then broadcast();
              \* the frame is packed once, by m_clientProtocols.begin()->second
              /\ nframes < MaxFrames
              /\ nframes' = nframes + 1
              /\ wsClients' = wsClients \cup {f}
              /\ \E p \in {g \in Fds : m_clientProtocols[g] # "none"} :
                    rpc' = [IdleR EXCEPT !.op = "bcast",
                                         !.frame = [k |-> "bc", n |-> nframes + 1, by |-> p],
                                         !.todo = Ascending(wsClients \cup {f})]
              /\ UNCHANGED <<m_clientProtocols, closers, wire>>
         [] kind = "text" /\ ~isWebSocket ->
              \* ApplicationServer::onProtocolPacketForClient does nothing
              UNCHANGED <<nframes, wsClients, rpc, m_clientProtocols, closers, wire>>
         [] kind = "close" ->
              \* parseFrame sets CLOSED; onDataReceived calls closeClientConnection
              /\ ClosersOf(f) + 1 <= MaxClosers
              /\ m_clientProtocols' = [m_clientProtocols EXCEPT ![f] = "CLOSED"]
              /\ closers' = SpawnClosers(f, 1)
              /\ UNCHANGED <<nframes, wsClients, rpc, wire>>
         [] kind = "badop" ->
              \* default branch of parseFrame: CLOSED, error callback (first
              \* closeClientConnection), CLOSE 1003 through the raw-frame
              \* callback, then the CLOSED check (second closeClientConnection)
              /\ ClosersOf(f) + 2 <= MaxClosers
              /\ m_clientProtocols' = [m_clientProtocols EXCEPT ![f] = "CLOSED"]
              /\ closers' = SpawnClosers(f, 2)
              /\ \E w \in DirectSend(f, [k |-> "1003", n |-> 0, by |-> f]) :
                    wire' = [wire EXCEPT ![f] = w]
              /\ UNCHANGED <<wsClients, rpc, nframes>>
    /\ UNCHANGED <<config, m_running, stopper, proto, redis, onCloseCalls, now, osOpen, io, m_clients, m_sendBuffers, m_sendMutexes,
                   m_clientSendMutexes, m_clientBuffers, kpc>>

\* chunk for a connection whose instance is already CLOSED (its delayed close
\* has not run yet): the data is ignored and closeClientConnection runs again
ReadClosed(f) ==
    /\ Deliver
    /\ rpc.op = "idle" /\ m_running
    /\ osOpen[f] /\ io[f] # "none"
    /\ m_clientProtocols[f] = "CLOSED"
    /\ ClosersOf(f) + 1 <= MaxClosers
    /\ m_lastActive' = [m_lastActive EXCEPT ![f] = now]
    /\ closers' = SpawnClosers(f, 1)
    /\ UNCHANGED <<config, m_running, stopper, proto, redis, onCloseCalls, now, nframes, osOpen, wire, io, m_clients, m_sendBuffers,
                   m_sendMutexes, m_clientProtocols, m_clientSendMutexes,
                   m_clientBuffers, wsClients, rpc, kpc>>

\* ------------------------------------------- WebSocketServer::broadcast
\* the reactor after the recipient at the head of todo is done
NextRecipient(r) ==
    IF Len(r.todo) <= 1 THEN IdleR
    ELSE [IdleR EXCEPT !.op = "bcast", !.frame = r.frame, !.todo = Tail(r.todo)]

\* ::send(clientFd, frame, MSG_DONTWAIT) for the next recipient
BroadcastSend ==
    /\ rpc.op = "bcast"
    /\ LET g == Head(rpc.todo)
           c == WholeFrame(rpc.frame)
       IN  \E r \in SendResults(osOpen[g], c) :
              /\ wire' = IF r.r = "sent"
                         THEN [wire EXCEPT ![g] = WireAppend(@, Front(c, r.n))]
                         ELSE wire
              /\ rpc' = CASE r.r = "sent" /\ r.n = PieceLen(c) -> NextRecipient(rpc)
                          [] r.r = "sent" /\ r.n < PieceLen(c) ->
                                [rpc EXCEPT !.op = "fallback", !.lo = r.n + 1]
                          [] r.r = "again" -> [rpc EXCEPT !.op = "fallback", !.lo = 1]
                          [] OTHER -> NextRecipient(rpc)
    /\ UNCHANGED <<config, m_running, stopper, proto, redis, onCloseCalls, now, nframes, nevents, osOpen, io, m_clients, m_lastActive,
                   m_sendBuffers, m_sendMutexes, m_clientProtocols,
                   m_clientSendMutexes, m_clientBuffers, wsClients, closers, kpc>>

\* ------------------------------------------------------ TcpServer::sendData
\* sendData(f, c) up to the return of flushSendBuffer, for one outcome fl of
\* the flush: lock created, chunk queued, queue flushed
SendDataEffects(f, c, fl) ==
    /\ fl \in flushSendBuffer(osOpen[f], Append(m_sendBuffers[f], c))
    /\ m_sendMutexes' = m_sendMutexes \cup {f}
    /\ m_sendBuffers' = [m_sendBuffers EXCEPT ![f] = fl.q]
    /\ wire' = [wire EXCEPT ![f] = WireAppendAll(@, fl.out)]
    /\ io' = IF fl.err THEN io ELSE IoAfterSendData(io, f, fl)

\* sendBusinessData(clientFd, rest of the frame) after EAGAIN or a short write
BroadcastFallback ==
    /\ rpc.op = "fallback"
    /\ LET g == Head(rpc.todo)
           c == [WholeFrame(rpc.frame) EXCEPT !.lo = rpc.lo]
       IN  /\ SendLockFreeForReactor(g)
           /\ \E fl \in flushSendBuffer(osOpen[g], Append(m_sendBuffers[g], c)) :
                 /\ SendDataEffects(g, c, fl)
                 /\ rpc' = IF fl.err
                           THEN [rpc EXCEPT !.op = "flushClose", !.fd = g,
                                            !.after = "sendData"]
                           ELSE NextRecipient(rpc)
    /\ UNCHANGED <<config, m_running, stopper, proto, redis, onCloseCalls, now, nframes, nevents, osOpen, m_clients, m_lastActive,
                   m_clientProtocols, m_clientSendMutexes, m_clientBuffers,
                   wsClients, closers, kpc>>

\* ------------------------------------------------- run(): the WRITE event
\* as HandleWrite, for a drain that also refreshes m_lastActive[f]
HandleWriteTouches(f) ==
    /\ rpc.op = "idle" /\ m_running
    /\ osOpen[f] /\ io[f] = "RW"
    /\ SendLockFreeForReactor(f)
    /\ m_sendMutexes' = m_sendMutexes \cup {f}
    /\ m_lastActive' = [m_lastActive EXCEPT ![f] = now]
    /\ \E fl \in flushSendBuffer(osOpen[f], m_sendBuffers[f]) :
          /\ m_sendBuffers' = [m_sendBuffers EXCEPT ![f] = fl.q]
          /\ wire' = [wire EXCEPT ![f] = WireAppendAll(@, fl.out)]
          /\ io' = IoAfterFlush(io, f, fl)
          /\ rpc' = IF fl.err
                    THEN [IdleR EXCEPT !.op = "flushClose", !.fd = f, !.after = "drain"]
                    ELSE rpc
    /\ UNCHANGED <<config, m_running, stopper, proto, redis, onCloseCalls, now, nframes, nevents, osOpen, m_clients,
                   m_clientProtocols, m_clientSendMutexes, m_clientBuffers,
                   wsClients, closers, kpc>>

HandleWrite(f) ==
    /\ rpc.op = "idle" /\ m_running
    /\ osOpen[f] /\ io[f] = "RW"
    /\ SendLockFreeForReactor(f)
    /\ m_sendMutexes' = m_sendMutexes \cup {f}
    /\ \E fl \in flushSendBuffer(osOpen[f], m_sendBuffers[f]) :
          /\ m_sendBuffers' = [m_sendBuffers EXCEPT ![f] = fl.q]
          /\ wire' = [wire EXCEPT ![f] = WireAppendAll(@, fl.out)]
          /\ io' = IoAfterFlush(io, f, fl)
          /\ rpc' = IF fl.err
                    THEN [IdleR EXCEPT !.op = "flushClose", !.fd = f, !.after = "drain"]
                    ELSE rpc
    /\ UNCHANGED <<config, m_running, stopper, proto, redis, onCloseCalls, now, nframes, nevents, osOpen, m_clients, m_lastActive,
                   m_clientProtocols, m_clientSendMutexes, m_clientBuffers,
                   wsClients, closers, kpc>>

\* the reactor inside flushSendBuffer after a send error: handleClose(fd),
\* then the rest of the caller (sendData looks at the queue once more)
FlushClose ==
    /\ rpc.op = "flushClose"
    /\ MutexFree
    /\ handleClose(rpc.fd)
    /\ io' = IF rpc.fd \in m_clients THEN removefd(io, rpc.fd)
             ELSE IF rpc.after = "sendData" /\ m_sendBuffers[rpc.fd] # <<>>
                  THEN modifyFd(io, rpc.fd, "RW")
                  ELSE io
    /\ rpc' = IF rpc.after = "sendData" THEN NextRecipient(rpc) ELSE IdleR
    /\ UNCHANGED <<config, m_running, stopper, proto, redis, now, nframes, nevents, wire, m_clientProtocols,
                   m_clientSendMutexes, m_clientBuffers, wsClients, closers, kpc>>

\* --------------------------------------------- TcpServer::sendHeartbeat
\* as HeartbeatOn, for a sendHeartbeat that does not look at the switch
HeartbeatAlways == TRUE

\* the test at the top of sendHeartbeat
HeartbeatOn == m_heartbeatEnabled

\* ------------------------------------------- TcpServer::checkHeartbeats
\* the timer fires: m_mutex is taken and now is sampled
TickStart ==
    /\ Deliver
    /\ kpc.op = "idle"
    /\ HeartbeatOn => nframes < MaxFrames
    /\ nframes' = IF HeartbeatOn THEN nframes + 1 ELSE nframes
    /\ kpc' = [IdleK EXCEPT !.op = "scan", !.todo = m_clients, !.tnow = now,
                            !.frame = [k |-> "hb", n |-> nframes + 1, by |-> 0]]
    /\ UNCHANGED <<config, m_running, stopper, proto, redis, onCloseCalls, now, osOpen, wire, io, m_clients, m_lastActive,
                   m_sendBuffers, m_sendMutexes, m_clientProtocols,
                   m_clientSendMutexes, m_clientBuffers, wsClients, closers, rpc>>

\* one iteration of the loop over m_clients, on an entry that a delayed close
\* thread erased meanwhile
TickSkip(f) ==
    /\ kpc.op = "scan"
    /\ f \in kpc.todo
    /\ f \notin m_clients
    /\ kpc' = [kpc EXCEPT !.todo = @ \ {f}]
    /\ UNCHANGED <<config, m_running, stopper, proto, redis, onCloseCalls, now, nframes, nevents, osOpen, wire, io, m_clients,
                   m_lastActive, m_sendBuffers, m_sendMutexes, m_clientProtocols,
                   m_clientSendMutexes, m_clientBuffers, wsClients, closers, rpc>>

\* one iteration, the idle test is true: eviction
TickEvict(f) ==
    /\ kpc.op = "scan"
    /\ f \in kpc.todo
    /\ f \in m_clients
    /\ HeartbeatExpired(m_lastActive[f], kpc.tnow)
    /\ io' = removefd(io, f)
    /\ osOpen' = OsClose(osOpen, f)
    /\ m_clients' = m_clients \ {f}
    /\ m_lastActive' = [m_lastActive EXCEPT ![f] = NoTime]
    /\ onCloseCalls' = [onCloseCalls EXCEPT ![f] = @ + 1]
    /\ kpc' = [kpc EXCEPT !.todo = @ \ {f}]
    /\ UNCHANGED <<config, m_running, stopper, proto, redis, now, nframes, nevents, wire, m_sendBuffers, m_sendMutexes,
                   m_clientProtocols, m_clientSendMutexes, m_clientBuffers, wsClients,
                   closers, rpc>>

\* one iteration, the idle test is false: sendHeartbeat(fd), heartbeat
\* enabled: sendData(fd, magic)
TickHeartbeat(f) ==
    /\ kpc.op = "scan"
    /\ f \in kpc.todo
    /\ f \in m_clients
    /\ ~HeartbeatExpired(m_lastActive[f], kpc.tnow)
    /\ HeartbeatOn
    /\ SendLockFreeForKeepalive(f)
    /\ \E fl \in flushSendBuffer(osOpen[f],
                    Append(m_sendBuffers[f], WholeFrame(kpc.frame))) :
          /\ SendDataEffects(f, WholeFrame(kpc.frame), fl)
          /\ kpc' = IF fl.err
                    THEN [kpc EXCEPT !.op = "flushClose", !.fd = f]
                    ELSE [kpc EXCEPT !.todo = @ \ {f}]
    /\ UNCHANGED <<config, m_running, stopper, proto, redis, onCloseCalls, now, nframes, nevents, osOpen, m_clients, m_lastActive,
                   m_clientProtocols, m_clientSendMutexes, m_clientBuffers, wsClients,
                   closers, rpc>>

\* one iteration, the idle test is false: sendHeartbeat(fd), heartbeat
\* disabled: returns at once
TickPass(f) ==
    /\ kpc.op = "scan"
    /\ f \in kpc.todo
    /\ f \in m_clients
    /\ ~HeartbeatExpired(m_lastActive[f], kpc.tnow)
    /\ ~HeartbeatOn
    /\ kpc' = [kpc EXCEPT !.todo = @ \ {f}]
    /\ UNCHANGED <<config, m_running, stopper, proto, redis, onCloseCalls, now, nframes, nevents, osOpen, wire, io, m_clients,
                   m_lastActive, m_sendBuffers, m_sendMutexes, m_clientProtocols,
                   m_clientSendMutexes, m_clientBuffers, wsClients, closers, rpc>>

\* the loop is over: m_mutex is released.  A keepalive thread that reached
\* handleClose from inside sendData locks m_mutex, a std::mutex it already
\* owns.  That is undefined; what a build produces is a thread blocked for
\* ever (a normal pthread mutex) or a terminated process (an error-checking
\* one, std::system_error uncaught in the thread).  In both the keepalive
\* thread takes no further step and m_mutex is never released: kpc.op stays
\* "flushClose".
TickEnd ==
    /\ kpc.op = "scan"
    /\ kpc.todo = {}
    /\ kpc' = IdleK
    /\ UNCHANGED <<config, m_running, stopper, proto, redis, onCloseCalls, now, nframes, nevents, osOpen, wire, io, m_clients, m_lastActive,
                   m_sendBuffers, m_sendMutexes, m_clientProtocols,
                   m_clientSendMutexes, m_clientBuffers, wsClients, closers, rpc>>

\* ------------------- closeClientConnection: the detached thread, 50 ms later
\* erase the protocol instance and ::close(fd)
CloserClose(f) ==
    /\ closers[f].a > 0
    /\ closers' = [closers EXCEPT ![f].a = @ - 1, ![f].b = @ + 1]
    /\ m_clientProtocols' = [m_clientProtocols EXCEPT ![f] = "none"]
    /\ osOpen' = OsClose(osOpen, f)
    /\ io' = IF osOpen[f] THEN IoAfterClose(io, f) ELSE io
    /\ UNCHANGED <<config, m_running, stopper, proto, redis, onCloseCalls, now, nframes, nevents, wire, m_clients, m_lastActive, m_sendBuffers,
                   m_sendMutexes, m_clientSendMutexes, m_clientBuffers, wsClients,
                   rpc, kpc>>

\* m_clients.erase(fd), without m_mutex
CloserErase(f) ==
    /\ closers[f].b > 0
    /\ closers' = [closers EXCEPT ![f].b = @ - 1]
    /\ m_clients' = m_clients \ {f}
    /\ UNCHANGED <<config, m_running, stopper, proto, redis, onCloseCalls, now, nframes, nevents, osOpen, wire, io, m_lastActive, m_sendBuffers,
                   m_sendMutexes, m_clientProtocols, m_clientSendMutexes,
                   m_clientBuffers, wsClients, rpc, kpc>>

\* -------------------------------------------------------- TcpServer::stop
\* stop() up to its lock_guard: m_running = false, close(m_socket)
StopBegin ==
    /\ Deliver
    /\ stopper = "none"
    /\ m_running' = FALSE
    /\ stopper' = "lock"
    /\ UNCHANGED <<config, proto, redis, onCloseCalls, now, nframes, osOpen, wire, io, m_clients,
                   m_lastActive, m_sendBuffers, m_sendMutexes, m_clientProtocols,
                   m_clientSendMutexes, m_clientBuffers, wsClients, closers, rpc, kpc>>

\* stop() with m_mutex: removefd and close for every entry of m_clients, then
\* m_clients.clear()
StopEnd ==
    /\ stopper = "lock"
    /\ MutexFree
    /\ stopper' = "done"
    /\ io' = [f \in Fds |-> IF f \in m_clients THEN removefd(io, f)[f] ELSE io[f]]
    /\ osOpen' = [f \in Fds |-> IF f \in m_clients THEN FALSE ELSE osOpen[f]]
    /\ m_clients' = {}
    /\ UNCHANGED <<config, m_running, proto, redis, onCloseCalls, now, nframes, nevents, wire,
                   m_lastActive, m_sendBuffers, m_sendMutexes, m_clientProtocols,
                   m_clientSendMutexes, m_clientBuffers, wsClients, closers, rpc, kpc>>

\* ------------------------------------------------------------------ time
Advance ==
    /\ Deliver
    /\ \E t \in Instants : t > now /\ now' = t
    /\ UNCHANGED <<config, m_running, stopper, proto, redis, onCloseCalls, nframes, osOpen, wire, io, m_clients, m_lastActive,
                   m_sendBuffers, m_sendMutexes, m_clientProtocols,
                   m_clientSendMutexes, m_clientBuffers, wsClients, closers, rpc, kpc>>

Next ==
    \/ \E f \in Fds : HandleAccept(f)
    \/ \E f \in Fds : HandleReadClose(f)
    \/ \E f \in Fds : ReadResp(f)
    \/ \E f \in Fds, kind \in ChunkKinds : ReadHandshake(f, kind)
    \/ \E f \in Fds : ReadUnknown(f)
    \/ \E f \in Fds, kind \in ChunkKinds : ReadFrame(f, kind)
    \/ \E f \in Fds : ReadClosed(f)
    \/ BroadcastSend
    \/ BroadcastFallback
    \/ \E f \in Fds : HandleWrite(f)
    \/ FlushClose
    \/ TickStart
    \/ \E f \in Fds : TickSkip(f)
    \/ \E f \in Fds : TickEvict(f)
    \/ \E f \in Fds : TickHeartbeat(f)
    \/ \E f \in Fds : TickPass(f)
    \/ TickEnd
    \/ \E f \in Fds : CloserClose(f)
    \/ \E f \in Fds : CloserErase(f)
    \/ StopBegin
    \/ StopEnd
    \/ Advance

Spec == Init /\ [][Next]_vars

\* ==================================================================
\* WebSocketProtocol: one connection's protocol pipeline, byte by byte
\* ==================================================================
\* A byte is 0..255; a byte string is a sequence of bytes.

\* ------------------------------------------------------------ bounds
MaxReads == 3         \* chunks one connection receives in one behaviour
MaxRespReads == 3     \* reads of the RESP connections in one behaviour

\* ----------------------------------------------------- program constants
MAX_FRAME_SIZE == 10 * 1024 * 1024
NPos == 0             \* std::string::npos, positions being 1-based here

\* ------------------------------------------------------------------- bits
RECURSIVE BitAnd(_, _)
\* a & b
BitAnd(a, b) ==
    IF a = 0 \/ b = 0 THEN 0
    ELSE (a % 2) * (b % 2) + 2 * BitAnd(a \div 2, b \div 2)

RECURSIVE BitXor(_, _)
\* a ^ b
BitXor(a, b) ==
    IF a = 0 THEN b
    ELSE IF b = 0 THEN a
    ELSE ((a + b) % 2) + 2 * BitXor(a \div 2, b \div 2)

\* s[from..to], empty when from > to
Slice(s, from, to) == SubSeq(s, from, to)

\* --------------------------------------------------- static isValidUtf8
\* (s[j] & 0xC0) == 0x80
IsCont(s, j) == BitAnd(s[j], 192) = 128

RECURSIVE Utf8From(_, _)
\* the loop of isValidUtf8 from position i on
Utf8From(s, i) ==
    IF i > Len(s) THEN TRUE
    ELSE LET c == s[i]
         IN  IF c < 128 THEN Utf8From(s, i + 1)
             ELSE IF BitAnd(c, 224) = 192
                  THEN /\ i + 1 <= Len(s)
                       /\ IsCont(s, i + 1)
                       /\ Utf8From(s, i + 2)
             ELSE IF BitAnd(c, 240) = 224
                  THEN /\ i + 2 <= Len(s)
                       /\ IsCont(s, i + 1) /\ IsCont(s, i + 2)
                       /\ Utf8From(s, i + 3)
             ELSE IF BitAnd(c, 248) = 240
                  THEN /\ i + 3 <= Len(s)
                       /\ IsCont(s, i + 1) /\ IsCont(s, i + 2) /\ IsCont(s, i + 3)
                       /\ Utf8From(s, i + 4)
             ELSE FALSE

isValidUtf8(str) == Utf8From(str, 1)

\* ------------------------------------------- readUint16/64, writeUint16/64
RECURSIVE readUint(_, _, _)
\* big-endian value of the n bytes of data from position pos on
readUint(data, pos, n) ==
    IF n = 0 THEN 0
    ELSE readUint(data, pos, n - 1) * 256 + data[pos + n - 1]

RECURSIVE writeUint(_, _)
\* the n low-order bytes of value, big-endian
writeUint(value, n) ==
    IF n = 0 THEN <<>>
    ELSE Append(writeUint(value \div 256, n - 1), value % 256)

\* ------------------------------------------- WebSocketProtocol::createFrame



\* as FrameHead, for a createFrame that sets the MASK bit of frames that
\* carry an extended length
FrameHeadMasksLong(opcode, payloadLength, fin) ==
    LET byte1 == (IF fin THEN 128 ELSE 0) + opcode
    IN  IF payloadLength < 126
        THEN <<byte1, payloadLength>>
        ELSE IF payloadLength <= 65535
        THEN <<byte1, 128 + 126>> \o writeUint(payloadLength, 2)
        ELSE <<byte1, 128 + 127>> \o writeUint(payloadLength, 8)

\* as FrameHead, for a createFrame that keeps the 7-bit length up to 126
FrameHeadShortAt126(opcode, payloadLength, fin) ==
    LET byte1 == (IF fin THEN 128 ELSE 0) + opcode
    IN  IF payloadLength <= 126
        THEN <<byte1, payloadLength>>
        ELSE IF payloadLength <= 65535
        THEN <<byte1, 126>> \o writeUint(payloadLength, 2)
        ELSE <<byte1, 127>> \o writeUint(payloadLength, 8)

\* what createFrame puts in front of a payload of payloadLength bytes:
\* byte2 starts as 0, the MASK bit is never set
FrameHead(opcode, payloadLength, fin) ==
    LET byte1 == (IF fin THEN 128 ELSE 0) + opcode
        byte2 == 0
    IN  IF payloadLength < 126
        THEN <<byte1, byte2 + payloadLength>>
        ELSE IF payloadLength <= 65535
        THEN <<byte1, byte2 + 126>> \o writeUint(payloadLength, 2)
        ELSE <<byte1, byte2 + 127>> \o writeUint(payloadLength, 8)

createFrame(opcode, payload, fin) ==
    FrameHead(opcode, Len(payload), fin) \o payload

\* FrameType
CONTINUATION == 0
TEXT == 1
BINARY == 2
CLOSE == 8
PING == 9
PONG == 10

packClose(code, reason) ==
    createFrame(CLOSE, writeUint(code, 2) \o reason, TRUE)

\* as packPong, for a reply that leaves the PING's payload out
packPongDropsPayload(data) == createFrame(PONG, <<>>, TRUE)

packPong(data) == createFrame(PONG, data, TRUE)

\* refuses (an empty result) a text that isValidUtf8 rejects
packTextMessage(text) ==
    IF isValidUtf8(text) THEN createFrame(TEXT, text, TRUE) ELSE <<>>

\* WebSocketServer::sendCloseFrame: the length byte is a uint8_t
sendCloseFrame(code, reason) ==
    <<136, (2 + Len(reason)) % 256>> \o writeUint(code, 2) \o reason

\* ------------------------------------- WebSocketProtocol::parseFrameHeader
NoHeader == [ok |-> FALSE, tooLarge |-> FALSE, fin |-> FALSE, opcode |-> 0,
             masked |-> FALSE, payload_length |-> 0,
             masking_key |-> <<0, 0, 0, 0>>, headerSize |-> 0]

\* the header once its length field is read
HeaderOf(data, masked, pos, plen) ==
    IF plen > MAX_FRAME_SIZE
    THEN [NoHeader EXCEPT !.tooLarge = TRUE]
    ELSE [ok |-> TRUE, tooLarge |-> FALSE,
          fin |-> BitAnd(data[1], 128) # 0,
          opcode |-> BitAnd(data[1], 15),
          masked |-> masked,
          payload_length |-> plen,
          masking_key |-> IF masked THEN Slice(data, pos + 1, pos + 4)
                          ELSE <<0, 0, 0, 0>>,
          headerSize |-> IF masked THEN pos + 4 ELSE pos]

\* masked: byte2 & 0x80; len7: byte2 & 0x7F; ext: bytes of extended length
HeaderWith(data, masked, len7, ext) ==
    IF Len(data) < 2 + ext THEN NoHeader
    ELSE IF masked /\ Len(data) < 2 + ext + 4 THEN NoHeader
    ELSE HeaderOf(data, masked, 2 + ext,
                  IF ext = 0 THEN len7 ELSE readUint(data, 3, ext))

ExtendedLength(len7) == IF len7 = 126 THEN 2 ELSE IF len7 = 127 THEN 8 ELSE 0

parseFrameHeader(data) ==
    IF Len(data) < 2 THEN NoHeader
    ELSE HeaderWith(data, BitAnd(data[2], 128) # 0, BitAnd(data[2], 127),
                    ExtendedLength(BitAnd(data[2], 127)))

\* WebSocketProtocol::unmaskPayload
unmaskPayload(payload, maskingKey) ==
    [i \in 1..Len(payload) |-> BitXor(payload[i], maskingKey[((i - 1) % 4) + 1])]

\* ------------------------------------------------------------------- text
\* the bytes of the pieces of text the requests and the server's messages are
\* made of; "[client 5]: " stands for the prefix broadcast() puts before a
\* message of the client on fd 5, whose first word is three CJK characters
Ascii(t) ==
    CASE t = "GET " ->
            <<71, 69, 84, 32>>
      [] t = "/ HTTP/1.1" ->
            <<47, 32, 72, 84, 84, 80, 47, 49, 46, 49>>
      [] t = "\r\n" ->
            <<13, 10>>
      [] t = "\n" ->
            <<10>>
      [] t = "Upgrade:" ->
            <<85, 112, 103, 114, 97, 100, 101, 58>>
      [] t = "upgrade:" ->
            <<117, 112, 103, 114, 97, 100, 101, 58>>
      [] t = "websocket" ->
            <<119, 101, 98, 115, 111, 99, 107, 101, 116>>
      [] t = "WebSocket" ->
            <<87, 101, 98, 83, 111, 99, 107, 101, 116>>
      [] t = "Upgrade: websocket" ->
            <<85, 112, 103, 114, 97, 100, 101, 58, 32, 119, 101, 98, 115, 111, 99, 107, 101, 116>>
      [] t = "Upgrade: WebSocket" ->
            <<85, 112, 103, 114, 97, 100, 101, 58, 32, 87, 101, 98, 83, 111, 99, 107, 101, 116>>
      [] t = "upgrade: websocket" ->
            <<117, 112, 103, 114, 97, 100, 101, 58, 32, 119, 101, 98, 115, 111, 99, 107, 101, 116>>
      [] t = "Sec-WebSocket-Key:" ->
            <<83, 101, 99, 45, 87, 101, 98, 83, 111, 99, 107, 101, 116, 45, 75, 101, 121, 58>>
      [] t = "sec-websocket-key:" ->
            <<115, 101, 99, 45, 119, 101, 98, 115, 111, 99, 107, 101, 116, 45, 107, 101, 121, 58>>
      [] t = " dGhl" ->
            <<32, 100, 71, 104, 108>>
      [] t = "Sec-WebSocket-Version: 13" ->
            <<83, 101, 99, 45, 87, 101, 98, 83, 111, 99, 107, 101, 116, 45, 86, 101, 114, 115, 105, 111, 110, 58, 32, 49, 51>>
      [] t = "sec-websocket-version: 13" ->
            <<115, 101, 99, 45, 119, 101, 98, 115, 111, 99, 107, 101, 116, 45, 118, 101, 114, 115, 105, 111, 110, 58, 32, 49, 51>>
      [] t = "Host: x" ->
            <<72, 111, 115, 116, 58, 32, 120>>
      [] t = "Invalid UTF-8 in TEXT frame" ->
            <<73, 110, 118, 97, 108, 105, 100, 32, 85, 84, 70, 45, 56, 32, 105, 110, 32, 84, 69, 88, 84, 32, 102, 114, 97, 109, 101>>
      [] t = "Unknown frame type" ->
            <<85, 110, 107, 110, 111, 119, 110, 32, 102, 114, 97, 109, 101, 32, 116, 121, 112, 101>>
      [] t = "Server closing" ->
            <<83, 101, 114, 118, 101, 114, 32, 99, 108, 111, 115, 105, 110, 103>>
      [] t = "[client 5]: " ->
            <<91, 229, 174, 162, 230, 136, 183, 231, 171, 175, 53, 93, 58, 32>>
      [] t = "PONG" ->
            <<80, 79, 78, 71>>
      [] t = "OK" ->
            <<79, 75>>
      [] t = "ERR wrong number of arguments for 'ping' command" ->
            <<69, 82, 82, 32, 119, 114, 111, 110, 103, 32, 110, 117, 109, 98, 101, 114, 32, 111, 102, 32, 97, 114, 103, 117, 109, 101, 110, 116, 115, 32, 102, 111, 114, 32, 39, 112, 105, 110, 103, 39, 32, 99, 111, 109, 109, 97, 110, 100>>
      [] t = "ERR unknown command '" ->
            <<69, 82, 82, 32, 117, 110, 107, 110, 111, 119, 110, 32, 99, 111, 109, 109, 97, 110, 100, 32, 39>>
      [] t = "'" ->
            <<39>>
      [] t = "PING" ->
            <<80, 73, 78, 71>>
      [] t = "ping" ->
            <<112, 105, 110, 103>>
      [] t = "SET" ->
            <<83, 69, 84>>
      [] t = "GET" ->
            <<71, 69, 84>>
      [] t = "DEL" ->
            <<68, 69, 76>>
      [] t = "COMMAND" ->
            <<67, 79, 77, 77, 65, 78, 68>>
      [] t = "KEYS" ->
            <<75, 69, 89, 83>>
      [] t = "k" ->
            <<107>>
      [] t = "j" ->
            <<106>>
      [] t = "v" ->
            <<118>>
      [] t = "w" ->
            <<119>>
      [] t = "x" ->
            <<120>>
      [] t = "$-1" ->
            <<36, 45, 49>>
      [] t = "UPGRADE: WEBSOCKET" ->
            <<85, 80, 71, 82, 65, 68, 69, 58, 32, 87, 69, 66, 83, 79, 67, 75, 69, 84>>

RECURSIVE Text(_)
\* the bytes of a text given as a sequence of pieces
Text(ts) == IF ts = <<>> THEN <<>> ELSE Ascii(Head(ts)) \o Text(Tail(ts))

\* std::string::find(pat, from): the first position at or after from where
\* pat occurs in data, NPos when there is none
Least(hits) == IF hits = {} THEN NPos ELSE CHOOSE p \in hits : \A q \in hits : p <= q

Find(data, pat, from) ==
    Least({p \in from..(Len(data) - Len(pat) + 1) :
              SubSeq(data, p, p + Len(pat) - 1) = pat})

Contains(data, t) == Find(data, Ascii(t), 1) # NPos

\* " \t\r\n"
Blank == {32, 9, 13, 10}

RECURSIVE Trim(_)
\* erase(0, find_first_not_of(blank)), erase(find_last_not_of(blank) + 1)
Trim(s) ==
    IF s = <<>> THEN s
    ELSE IF Head(s) \in Blank THEN Trim(Tail(s))
    ELSE IF s[Len(s)] \in Blank THEN Trim(SubSeq(s, 1, Len(s) - 1))
    ELSE s

RECURSIVE SkipSpaces(_, _)
\* while (keyPos < data.length() && data[keyPos] == ' ') keyPos++
SkipSpaces(data, pos) ==
    IF pos <= Len(data) /\ data[pos] = 32 THEN SkipSpaces(data, pos + 1) ELSE pos

\* --------------------------------------- WebSocketProtocol::handleHandshake
\* ok: the request is accepted; clientKey: the key the response is computed
\* from
NoHandshake == [ok |-> FALSE, clientKey |-> <<>>]

\* keyEnd: at "\r\n", else at "\n", else the end of the string
KeyEnd(data, crlf, lf) ==
    IF crlf # NPos THEN crlf ELSE IF lf # NPos THEN lf ELSE Len(data) + 1

\* the key from keyPos on
KeyAt(data, keyPos) ==
    [ok |-> TRUE,
     clientKey |-> Trim(SubSeq(data, keyPos,
                               KeyEnd(data, Find(data, <<13, 10>>, keyPos),
                                      Find(data, <<10>>, keyPos)) - 1))]

\* found: the position of the key header, upper-case form first
KeyHeaderAt(data, found, headerLen) ==
    IF found = NPos THEN NoHandshake
    ELSE KeyAt(data, SkipSpaces(data, found + headerLen))

FirstFound(upper, lower) == IF upper # NPos THEN upper ELSE lower

handleHandshake(data) ==
    IF Find(data, Ascii("GET "), 1) # 1 THEN NoHandshake
    ELSE IF ~Contains(data, "Upgrade:") /\ ~Contains(data, "upgrade:") THEN NoHandshake
    ELSE IF ~Contains(data, "websocket") /\ ~Contains(data, "WebSocket") THEN NoHandshake
    ELSE KeyHeaderAt(data,
                     FirstFound(Find(data, Ascii("Sec-WebSocket-Key:"), 1),
                                Find(data, Ascii("sec-websocket-key:"), 1)),
                     Len(Ascii("Sec-WebSocket-Key:")))

\* generateHandshakeResponse(clientKey): the accept key is a function of the
\* client key, so the response is identified by the client key
generateHandshakeResponse(clientKey) == [k |-> "101", b |-> clientKey, more |-> 0]

\* a frame handed to ::send
Frame(bytes) == [k |-> "frame", b |-> bytes, more |-> 0]

\* --------------- ApplicationServer::onDataReceived: is this a handshake?
IsHandshakeRequest(dataStr) ==
    /\ Find(dataStr, Ascii("GET "), 1) = 1
    /\ \/ Contains(dataStr, "Upgrade: websocket")
       \/ Contains(dataStr, "Upgrade: WebSocket")
       \/ Contains(dataStr, "upgrade: websocket")

\* ------------------------------------------------ the connection's state
\* state_: "none" while m_clientProtocols has no instance for the connection;
\* buffer_: the instance's receive buffer; sent: what was handed to ::send,
\* in order; delivered: what the packet callback was called with, in order;
\* ignored: chunks onDataReceived dropped because the instance was CLOSED;
\* closers: delayed close threads not yet run; open: the socket is open;
\* joined: the fd is in WebSocketServer's broadcast set; req, rest: the
\* request the peer is sending and the bytes of the peer's last write not
\* read yet; nreads: inputs so far; processed: what the instance's
\* onDataReceived returned last
NewConnection ==
    [state_ |-> "none", buffer_ |-> <<>>, sent |-> <<>>, delivered |-> <<>>,
     ignored |-> 0, closers |-> 0, open |-> TRUE, joined |-> FALSE,
     req |-> "none", rest |-> <<>>, nreads |-> 0, processed |-> 0]

\* WebSocketProtocol::WebSocketProtocol
Construct(p) == [p EXCEPT !.state_ = "CONNECTING", !.buffer_ = <<>>]

\* rawFrameCallback_: ::send of the whole message
Emit(p, m) == [p EXCEPT !.sent = Append(@, m)]

\* ApplicationServer::closeClientConnection, up to the start of its thread
closeClientConnection(p) ==
    IF p.state_ \notin {"none", "CLOSED"}
    THEN [Emit(p, Frame(packClose(1000, Ascii("Server closing"))))
             EXCEPT !.state_ = "CLOSED", !.closers = @ + 1]
    ELSE [p EXCEPT !.closers = @ + 1]

\* WebSocketServer::onPacketReceived behind the packet callback
onPacketReceived(p, opcode, message) ==
    IF ~isValidUtf8(message)
    THEN [p EXCEPT !.delivered = Append(@, [opcode |-> opcode, payload |-> message]),
                   !.sent = Append(@, Frame(sendCloseFrame(1007,
                                      Ascii("Invalid UTF-8 in TEXT frame"))))]
    ELSE [p EXCEPT !.delivered = Append(@, [opcode |-> opcode, payload |-> message]),
                   !.joined = TRUE,
                   !.sent = Append(@, Frame(packTextMessage(
                                      Ascii("[client 5]: ") \o message)))]

\* ------------------------------------------ WebSocketProtocol::parseFrame
\* ret, bytesConsumed as in the code; p: the connection afterwards
Parsed(ret, bytesConsumed, p) == [ret |-> ret, bytesConsumed |-> bytesConsumed, p |-> p]

\* the switch on header.opcode
Dispatch(p, opcode, totalFrameSize, payloadData) ==
    CASE opcode = TEXT ->
            IF ~isValidUtf8(payloadData) /\ p.state_ = "CLOSED"
            THEN Parsed(FALSE, totalFrameSize, p)
            ELSE IF ~isValidUtf8(payloadData)
            THEN Parsed(FALSE, totalFrameSize,
                    closeClientConnection(
                        [Emit(p, Frame(packClose(1007, Ascii("Invalid UTF-8 in TEXT frame"))))
                            EXCEPT !.state_ = "CLOSED"]))
            ELSE Parsed(TRUE, totalFrameSize, onPacketReceived(p, TEXT, payloadData))
      [] opcode = BINARY ->
            Parsed(TRUE, totalFrameSize, onPacketReceived(p, BINARY, payloadData))
      [] opcode = PING ->
            Parsed(TRUE, totalFrameSize, Emit(p, Frame(packPong(payloadData))))
      [] opcode = PONG -> Parsed(TRUE, totalFrameSize, p)
      [] opcode = CLOSE -> Parsed(FALSE, totalFrameSize, [p EXCEPT !.state_ = "CLOSED"])
      [] OTHER ->
            Parsed(FALSE, totalFrameSize,
                   Emit(closeClientConnection([p EXCEPT !.state_ = "CLOSED"]),
                        Frame(packClose(1003, Ascii("Unknown frame type")))))

\* the payload is there: unmask it when the MASK bit is set, else take it
\* as it is
Unmasked(header, payload) ==
    IF header.masked THEN unmaskPayload(payload, header.masking_key) ELSE payload

\* parseFrame after parseFrameHeader
FrameWithHeader(p, data, header) ==
    IF header.tooLarge THEN Parsed(FALSE, 0, closeClientConnection(p))
    ELSE IF ~header.ok THEN Parsed(FALSE, 0, p)
    ELSE IF Len(data) < header.headerSize + header.payload_length
    THEN Parsed(FALSE, 0, p)
    ELSE Dispatch(p, header.opcode, header.headerSize + header.payload_length,
                  Unmasked(header, SubSeq(data, header.headerSize + 1,
                                          header.headerSize + header.payload_length)))

parseFrame(p, data) ==
    IF Len(data) < 2 THEN Parsed(FALSE, 0, p)
    ELSE IF BitAnd(data[1], 15) > 10 THEN Parsed(FALSE, 0, p)
    ELSE FrameWithHeader(p, data, parseFrameHeader(data))

RECURSIVE ParseLoop(_, _)
\* the loop body after parseFrame returned r
AfterFrame(totalConsumed, r) ==
    IF r.ret THEN ParseLoop(r.p, totalConsumed + r.bytesConsumed)
    ELSE [r.p EXCEPT !.buffer_ =
                        SubSeq(@, totalConsumed + r.bytesConsumed + 1, Len(@)),
                     !.processed =
                        IF totalConsumed + r.bytesConsumed > 0
                        THEN totalConsumed + r.bytesConsumed ELSE @]

\* the while loop of onDataReceived, totalConsumed bytes of buffer_ done;
\* processed, the value returned, holds the length of the data on entry
ParseLoop(p, totalConsumed) ==
    IF totalConsumed >= Len(p.buffer_)
    THEN [p EXCEPT !.buffer_ = SubSeq(@, totalConsumed + 1, Len(@)),
                   !.processed = totalConsumed]
    ELSE AfterFrame(totalConsumed,
                    parseFrame(p, SubSeq(p.buffer_, totalConsumed + 1, Len(p.buffer_))))

\* -------------------------------------- WebSocketProtocol::onDataReceived
\* as onDataReceivedClosed, for an instance that goes on parsing when CLOSED
onDataReceivedClosedParses(p, data) ==
    ParseLoop([p EXCEPT !.buffer_ = @ \o data, !.processed = Len(data)], 0)

\* the CLOSED branch
onDataReceivedClosed(p, data) ==
    [p EXCEPT !.ignored = @ + 1, !.processed = Len(data)]

\* the CONNECTING branch after handleHandshake returned h
Handshaken(p, h) ==
    IF h.ok
    THEN [Emit(p, generateHandshakeResponse(h.clientKey))
             EXCEPT !.state_ = "OPEN", !.buffer_ = <<>>]
    ELSE closeClientConnection([p EXCEPT !.state_ = "CLOSED"])

onDataReceived(p, data) ==
    CASE p.state_ = "CONNECTING" ->
            Handshaken([p EXCEPT !.processed = Len(data)], handleHandshake(data))
      [] p.state_ \in {"OPEN", "CLOSING"} ->
            ParseLoop([p EXCEPT !.buffer_ = @ \o data, !.processed = Len(data)], 0)
      [] p.state_ = "CLOSED" -> onDataReceivedClosed(p, data)

\* ------------------- ApplicationServer::onDataReceived for one connection
\* of a WebSocketServer: the router has no protocol registered
\* the check after onDataReceived: a CLOSED instance is disconnected
ClosedCheck(r) == IF r.state_ = "CLOSED" THEN closeClientConnection(r) ELSE r

AppOnDataReceived(p, data) ==
    IF p.state_ # "none" THEN ClosedCheck(onDataReceived(p, data))
    ELSE IF IsHandshakeRequest(data) THEN ClosedCheck(onDataReceived(Construct(p), data))
    ELSE p

\* ------------------------------------------------------ what the peer sends
\* opening requests: a well-formed one, one with lower-case header names,
\* one without a key, and a plain HTTP request
Request(r) ==
    CASE r = "upgrade" ->
            Text(<<"GET ", "/ HTTP/1.1", "\r\n", "Upgrade: websocket", "\r\n",
                   "Sec-WebSocket-Key:", " dGhl", "\r\n",
                   "Sec-WebSocket-Version: 13", "\r\n", "\r\n">>)
      [] r = "lower" ->
            Text(<<"GET ", "/ HTTP/1.1", "\r\n", "upgrade: websocket", "\r\n",
                   "sec-websocket-key:", " dGhl", "\r\n",
                   "sec-websocket-version: 13", "\r\n", "\r\n">>)
      [] r = "nokey" ->
            Text(<<"GET ", "/ HTTP/1.1", "\r\n", "Upgrade: websocket", "\r\n",
                   "Sec-WebSocket-Version: 13", "\r\n", "\r\n">>)
      [] r = "plain" ->
            Text(<<"GET ", "/ HTTP/1.1", "\r\n", "Host: x", "\r\n", "\r\n">>)

RequestNames == {"upgrade", "lower", "nokey", "plain"}

\* the masking key of the client's frames
MaskKey == <<55, 250, 33, 61>>

\* a frame as a client builds it
ClientFrame(opcode, masked, payload) ==
    <<128 + opcode, (IF masked THEN 128 ELSE 0) + Len(payload)>>
    \o (IF masked THEN MaskKey \o unmaskPayload(payload, MaskKey) ELSE payload)

\* payloads: empty, "(", U+00E9, U+10000; C3 28, a truncated sequence, a stray
\* continuation byte, lead byte F8; overlong C0 80 and E0 80 80, the surrogate
\* ED A0 80, lead byte F5, and F4 90 80 80 (above U+10FFFF)
Payloads ==
    {<<>>, <<40>>, <<195, 169>>, <<240, 144, 128, 128>>,
     <<195, 40>>, <<226, 130>>, <<128>>, <<248, 136, 128, 128>>,
     <<192, 128>>, <<224, 128, 128>>, <<237, 160, 128>>,
     <<245, 128, 128, 128>>, <<244, 144, 128, 128>>}

\* a masked binary frame header announcing more than MAX_FRAME_SIZE bytes
OversizeHeader == <<128 + BINARY, 128 + 127>> \o writeUint(MAX_FRAME_SIZE + 1, 8) \o MaskKey

ClientFrames ==
    {ClientFrame(op, m, pl) : op \in {TEXT, BINARY}, m \in BOOLEAN, pl \in Payloads}
    \cup {ClientFrame(op, m, pl) : op \in (0..15) \ {TEXT, BINARY}, m \in BOOLEAN,
                                   pl \in {<<>>, <<40>>}}
    \cup {OversizeHeader}

\* lengths of the messages other clients broadcast: both sides of the two
\* thresholds of createFrame
BroadcastLens == {125, 126, 127, 65535, 65536}

\* ---------------------------------------------------------------- actions
engine == <<isWebSocket, respRegistered, m_heartbeatEnabled, now, nframes, nevents,
            osOpen, wire, io, m_clients, m_lastActive, m_sendBuffers, m_sendMutexes,
            m_clientProtocols, m_clientSendMutexes, m_clientBuffers, wsClients,
            closers, rpc, kpc, m_running, stopper, onCloseCalls>>

\* handleRead on the connection: recv() returns data
\* req: the request the peer is sending; rest: what stays in flight
Receive(data, req, rest) ==
    /\ proto.open
    /\ proto.nreads < MaxReads
    /\ proto' = AppOnDataReceived(
                   [proto EXCEPT !.req = req, !.rest = rest, !.nreads = @ + 1], data)
    /\ UNCHANGED <<engine, redis>>

\* the first read: the first cut bytes of request r; the rest is in flight
WsReadRequest(r, cut) ==
    /\ proto.nreads = 0
    /\ cut \in 1..Len(Request(r))
    /\ Receive(SubSeq(Request(r), 1, cut), r,
               SubSeq(Request(r), cut + 1, Len(Request(r))))

\* the next read takes what is in flight
WsReadRest ==
    /\ proto.rest # <<>>
    /\ Receive(proto.rest, proto.req, <<>>)

\* a read takes the first cut bytes of the client's next frame
WsReadFrame(fr, cut) ==
    /\ proto.nreads > 0
    /\ proto.rest = <<>>
    /\ cut \in {1, Len(fr) - 1, Len(fr)}
    /\ Receive(SubSeq(fr, 1, cut), proto.req, SubSeq(fr, cut + 1, Len(fr)))

\* frames a client pipelines behind a PING
FollowFrames ==
    {ClientFrame(TEXT, TRUE, <<40>>), ClientFrame(PING, TRUE, <<>>),
     ClientFrame(CLOSE, TRUE, <<>>)}

\* one read takes a whole PING frame and the whole frame behind it
WsReadPipelined(m, pl, fr) ==
    /\ proto.nreads > 0
    /\ proto.rest = <<>>
    /\ Receive(ClientFrame(PING, m, pl) \o fr, proto.req, <<>>)

\* WebSocketServer::broadcast of another client's message of n bytes reaches
\* this connection: packTextMessage, ::send.  Only the head of the frame is
\* kept, more counts the payload bytes after it.
WsBroadcast(n) ==
    /\ proto.open
    /\ proto.joined
    /\ proto.state_ # "none"
    /\ proto.nreads < MaxReads
    /\ proto' = [proto EXCEPT !.nreads = @ + 1,
                              !.sent = Append(@, [k |-> "frame",
                                                  b |-> FrameHead(TEXT, n, TRUE),
                                                  more |-> n])]
    /\ UNCHANGED <<engine, redis>>

\* closeClientConnection's thread: erase the instance, ::close(fd)
WsCloser ==
    /\ proto.closers > 0
    /\ proto' = [proto EXCEPT !.closers = @ - 1, !.state_ = "none", !.open = FALSE]
    /\ UNCHANGED <<engine, redis>>

InitWs ==
    /\ isWebSocket = WebSocketApplication.ws
    /\ respRegistered = WebSocketApplication.resp
    /\ m_heartbeatEnabled = WebSocketApplication.hb
    /\ now = 0
    /\ nframes = 0
    /\ nevents = 0
    /\ osOpen = [f \in Fds |-> FALSE]
    /\ wire = [f \in Fds |-> <<>>]
    /\ io = [f \in Fds |-> "none"]
    /\ m_clients = {}
    /\ m_lastActive = [f \in Fds |-> NoTime]
    /\ m_sendBuffers = [f \in Fds |-> <<>>]
    /\ m_sendMutexes = {}
    /\ m_clientProtocols = [f \in Fds |-> "none"]
    /\ m_clientSendMutexes = {}
    /\ m_clientBuffers = {}
    /\ wsClients = {}
    /\ closers = [f \in Fds |-> [a |-> 0, b |-> 0]]
    /\ rpc = IdleR
    /\ kpc = IdleK
    /\ m_running = TRUE
    /\ stopper = "none"
    /\ onCloseCalls = [f \in Fds |-> 0]
    /\ proto = NewConnection
    /\ redis = NoRedis

NextWs ==
    \/ \E r \in RequestNames, cut \in 1..128 : WsReadRequest(r, cut)
    \/ WsReadRest
    \/ \E fr \in ClientFrames, cut \in 1..16 : WsReadFrame(fr, cut)
    \/ \E m \in BOOLEAN, pl \in {<<>>, <<40>>}, fr \in FollowFrames :
          WsReadPipelined(m, pl, fr)
    \/ \E n \in BroadcastLens : WsBroadcast(n)
    \/ WsCloser

SpecWs == InitWs /\ [][NextWs]_vars

\* the step is a read of the connection
WsRead ==
    \/ \E r \in RequestNames, cut \in 1..128 : WsReadRequest(r, cut)
    \/ WsReadRest
    \/ \E fr \in ClientFrames, cut \in 1..16 : WsReadFrame(fr, cut)
    \/ \E m \in BOOLEAN, pl \in {<<>>, <<40>>}, fr \in FollowFrames :
          WsReadPipelined(m, pl, fr)

\* ==================================================================
\* PureRedisProtocol: the RESP pipeline of the server that registers it,
\* byte by byte.  Positions pos, le are the code's (0-based); byte pos of a
\* string is element pos + 1 of the sequence.
\* ==================================================================
CRLF == Ascii("\r\n")
HEARTBEAT_MAGIC == <<250, 251, 252, 253>>

RECURSIVE to_string(_)
\* std::to_string
to_string(n) ==
    IF n < 0 THEN <<45>> \o to_string(0 - n)
    ELSE IF n < 10 THEN <<48 + n>>
    ELSE Append(to_string(n \div 10), 48 + (n % 10))

\* ::toupper on every byte
toupper(str) == [i \in 1..Len(str) |-> IF str[i] >= 97 /\ str[i] <= 122
                                       THEN str[i] - 32 ELSE str[i]]

\* ------------------------------------------------------------ std::stoll
RECURSIVE DigitsEnd(_, _)
\* the position after the digits of str that start at position i
DigitsEnd(str, i) ==
    IF i <= Len(str) /\ str[i] >= 48 /\ str[i] <= 57 THEN DigitsEnd(str, i + 1) ELSE i

RECURSIVE DigitsValue(_, _, _)
\* the value of the digits str[i..j-1]
DigitsValue(str, i, j) ==
    IF i >= j THEN 0
    ELSE DigitsValue(str, i, j - 1) * 10 + (str[j - 1] - 48)

RECURSIVE SpaceEnd(_, _)
\* the position after the isspace bytes of str that start at position i
SpaceEnd(str, i) ==
    IF i <= Len(str) /\ str[i] \in {32, 9, 10, 11, 12, 13} THEN SpaceEnd(str, i + 1) ELSE i

\* the number whose sign is at position i, or whose digits start there
Signed(str, i, negative, from) ==
    IF DigitsEnd(str, from) = from
    THEN [threw |-> TRUE, v |-> 0]           \* std::invalid_argument
    ELSE [threw |-> FALSE,
          v |-> IF negative THEN 0 - DigitsValue(str, from, DigitsEnd(str, from))
                ELSE DigitsValue(str, from, DigitsEnd(str, from))]

\* leading white space, an optional sign, digits; what follows is ignored
StollAt(str, i) ==
    IF i <= Len(str) /\ str[i] \in {43, 45}
    THEN Signed(str, i, str[i] = 45, i + 1)
    ELSE Signed(str, i, FALSE, i)

stoll(str) == StollAt(str, SpaceEnd(str, 1))

\* --------------------------------------- PureRedisProtocol::resp_decode
Undecoded == [success |-> FALSE, out |-> <<>>, consumed |-> 0, threw |-> FALSE]
Thrown == [success |-> FALSE, out |-> <<>>, consumed |-> 0, threw |-> TRUE]

\* buf.substr(pos, len): a negative len is a huge size_t, the rest of buf
substr(buf, pos, len) ==
    IF len < 0 \/ pos + len > Len(buf) THEN SubSeq(buf, pos + 1, Len(buf))
    ELSE SubSeq(buf, pos + 1, pos + len)

RECURSIVE Bulks(_, _, _, _)
\* after `int64_t len = std::stoll(...)`, pos = le + 2.  pos + len + 2 is
\* computed in size_t: a sum below 0 wraps to a huge value
BulkOfLen(buf, remaining, out, len, pos) ==
    IF len.threw THEN Thrown
    ELSE IF pos + len.v + 2 < 0 \/ pos + len.v + 2 > Len(buf) THEN Undecoded
    ELSE Bulks(buf, remaining - 1, pos + len.v + 2,
               Append(out, substr(buf, pos, len.v)))

\* after `le = buf.find("\r\n", pos + 1)`, p = le + 1 or NPos
BulkHeader(buf, remaining, out, pos, p) ==
    IF p = NPos THEN Undecoded
    ELSE BulkOfLen(buf, remaining, out, stoll(SubSeq(buf, pos + 2, p - 1)), p + 1)

\* the for loop with remaining = count - i iterations to go
Bulks(buf, remaining, pos, out) ==
    IF remaining <= 0
    THEN [success |-> TRUE, out |-> out, consumed |-> pos, threw |-> FALSE]
    ELSE IF pos + 1 >= Len(buf) THEN Undecoded
    ELSE IF buf[pos + 1] # 36 THEN Undecoded
    ELSE BulkHeader(buf, remaining, out, pos, Find(buf, CRLF, pos + 2))

\* after `int64_t count = std::stoll(...)`
ArrayOfCount(buf, count, pos) ==
    IF count.threw THEN Thrown ELSE Bulks(buf, count.v, pos, <<>>)

\* after `le = buf.find("\r\n", 1)`, p = le + 1 or NPos
ArrayHeader(buf, p) ==
    IF p = NPos THEN Undecoded
    ELSE ArrayOfCount(buf, stoll(SubSeq(buf, 2, p - 1)), p + 1)

resp_decode(buf) ==
    IF buf = <<>> THEN Undecoded
    ELSE IF buf[1] # 42 THEN Undecoded
    ELSE ArrayHeader(buf, Find(buf, CRLF, 2))

\* ------------------------------------------------------- preprocessing
RECURSIVE filterHeartbeat(_)
filterHeartbeat(data) ==
    IF Len(data) >= MagicLen /\ SubSeq(data, 1, MagicLen) = HEARTBEAT_MAGIC
    THEN filterHeartbeat(SubSeq(data, MagicLen + 1, Len(data)))
    ELSE data

IsNotNull(c) == c # 0

filterNullBytes(data) == SelectSeq(data, IsNotNull)

\* ------------------------------------------------------ RESP formatting
formatSimpleString(str) == <<43>> \o str \o CRLF
formatError(error) == <<45>> \o error \o CRLF
formatInteger(value) == <<58>> \o to_string(value) \o CRLF
formatBulkString(str) == <<36>> \o to_string(Len(str)) \o CRLF \o str \o CRLF
formatNull == Ascii("$-1") \o CRLF

RECURSIVE formatBulks(_)
formatBulks(array) ==
    IF array = <<>> THEN <<>>
    ELSE formatBulkString(Head(array)) \o formatBulks(Tail(array))

formatArray(array) == <<42>> \o to_string(Len(array)) \o CRLF \o formatBulks(array)

\* ------------------------------- PureRedisProtocol::executeRedisCommand
\* as Stored, for a SET that inserts (std::map::emplace) and so keeps the
\* value of a key the store holds
StoredKeepsFirst(m, key, value) ==
    [x \in DOMAIN m \cup {key} |-> IF x \in DOMAIN m THEN m[x] ELSE value]

\* m_stringData is a function from the keys it holds to their values
Stored(m, key, value) ==
    [x \in DOMAIN m \cup {key} |-> IF x = key THEN value ELSE m[x]]

RECURSIVE KeysOf(_)
\* the keys of a set in the container's order, which src/ does not fix
KeysOf(keys) ==
    IF keys = {} THEN <<>>
    ELSE <<CHOOSE x \in keys : TRUE>> \o KeysOf(keys \ {CHOOSE x \in keys : TRUE})

\* the keys args[2..] names, each once
Named(args) == {args[i] : i \in 2..Len(args)}

\* m: m_stringData afterwards; response: the reply
Result(m, response) == [m |-> m, response |-> response]

\* the branches after cmd = toupper(args[0])
CommandOf(m, cmd, args) ==
    IF cmd = Ascii("COMMAND") THEN Result(m, formatArray(<<>>))
    ELSE IF cmd = Ascii("PING")
    THEN Result(m, IF Len(args) = 1 THEN formatSimpleString(Ascii("PONG"))
                   ELSE IF Len(args) = 2 THEN formatBulkString(args[2])
                   ELSE formatError(
                          Ascii("ERR wrong number of arguments for 'ping' command")))
    ELSE IF cmd = Ascii("SET") /\ Len(args) = 3
    THEN Result(Stored(m, args[2], args[3]), formatSimpleString(Ascii("OK")))
    ELSE IF cmd = Ascii("GET") /\ Len(args) = 2
    THEN Result(m, IF args[2] \in DOMAIN m THEN formatBulkString(m[args[2]])
                   ELSE formatNull)
    ELSE IF cmd = Ascii("DEL") /\ Len(args) >= 2
    THEN Result([x \in DOMAIN m \ Named(args) |-> m[x]],
                formatInteger(Cardinality(DOMAIN m \cap Named(args))))
    ELSE IF cmd = Ascii("KEYS") /\ Len(args) = 2
    THEN Result(m, formatArray(KeysOf(DOMAIN m)))
    ELSE Result(m, formatError(Ascii("ERR unknown command '") \o cmd \o Ascii("'")))

executeRedisCommand(m, args) == CommandOf(m, toupper(args[1]), args)

\* -------------------------------- PureRedisProtocol::onClientDataReceived
\* alive: the server process runs; m_clientBuffers, m_stringData: the
\* members of the one PureRedisProtocol; replies: what sendDirectResponse
\* sent to each fd; executed: the commands executed, in order; open: the
\* connection is open; written: every byte the peer has written; pending:
\* the bytes of it not read yet; nreads: reads so far
NewRedis ==
    [alive |-> TRUE,
     m_clientBuffers |-> [f \in Fds |-> <<>>],
     m_stringData |-> <<>>,
     replies |-> [f \in Fds |-> <<>>],
     executed |-> <<>>,
     open |-> [f \in Fds |-> TRUE],
     written |-> [f \in Fds |-> <<>>],
     pending |-> [f \in Fds |-> <<>>],
     nreads |-> 0]

\* sendDirectResponse after executeRedisCommand returned res
Responded(r, clientFd, args, res) ==
    [r EXCEPT !.m_stringData = res.m,
              !.executed = Append(@, [fd |-> clientFd, args |-> args]),
              !.replies[clientFd] = Append(@, res.response)]

RECURSIVE Drain(_, _)
\* the loop body after resp_decode returned d.  An exception of std::stoll
\* has no handler on the way up to the reactor loop: std::terminate
Decoded(r, clientFd, d) ==
    IF d.threw THEN [r EXCEPT !.alive = FALSE]
    ELSE IF ~d.success THEN r
    ELSE Drain([(IF d.out = <<>> THEN r
                 ELSE Responded(r, clientFd, d.out,
                                executeRedisCommand(r.m_stringData, d.out)))
                   EXCEPT !.m_clientBuffers[clientFd] =
                             SubSeq(@, d.consumed + 1, Len(@))],
               clientFd)

\* the while (true) loop
Drain(r, clientFd) == Decoded(r, clientFd, resp_decode(r.m_clientBuffers[clientFd]))

onClientDataReceived(r, clientFd, data) ==
    Drain([r EXCEPT !.m_clientBuffers[clientFd] =
                       filterNullBytes(filterHeartbeat(@ \o data))],
          clientFd)

\* ApplicationServer::onDataReceived on the server that registers
\* PureRedisProtocol: '*' goes straight to it; anything else that is no
\* WebSocket handshake reaches it through the fallback
RespOnDataReceived(r, clientFd, data) ==
    IF data[1] = 42 THEN onClientDataReceived(r, clientFd, data)
    ELSE IF IsHandshakeRequest(data) THEN r
    ELSE onClientDataReceived(r, clientFd, data)

\* as SkipMagic, for a handleRead that takes a read that starts with the
\* magic sequence for a heartbeat and nothing else
SkipMagicDropsRead(chunk) ==
    IF MagicLen <= Len(chunk) /\ SubSeq(chunk, 1, MagicLen) = HEARTBEAT_MAGIC
    THEN <<>>
    ELSE chunk

RECURSIVE SkipMagic(_)
\* the loop of TcpServer::handleRead over the leading magic sequences
SkipMagic(chunk) ==
    IF MagicLen <= Len(chunk) /\ SubSeq(chunk, 1, MagicLen) = HEARTBEAT_MAGIC
    THEN SkipMagic(SubSeq(chunk, MagicLen + 1, Len(chunk)))
    ELSE chunk

\* TcpServer::handleRead, recv() > 0: what is left after the magic
\* sequences goes to m_onMessage
handleRead(r, clientFd, chunk) ==
    IF SkipMagic(chunk) = <<>> THEN r
    ELSE RespOnDataReceived(r, clientFd, SkipMagic(chunk))

\* ------------------------------------------------------ what the peers send
\* the RESP array of bulk strings a client sends for args
EncodeArray(args) == formatArray(args)

RECURSIVE Times(_, _)
\* n copies of str
Times(n, str) == IF n = 0 THEN <<>> ELSE str \o Times(n - 1, str)

PingCommand == EncodeArray(<<Ascii("PING")>>)
SetCommand(key, value) == EncodeArray(<<Ascii("SET"), key, value>>)
GetCommand(key) == EncodeArray(<<Ascii("GET"), key>>)

\* whole commands on keys k and j
KvCommands ==
    {SetCommand(Ascii("k"), Ascii("v")), SetCommand(Ascii("k"), Ascii("w")),
     SetCommand(Ascii("j"), Ascii("w")), GetCommand(Ascii("k")),
     GetCommand(Ascii("j")), EncodeArray(<<Ascii("DEL"), Ascii("k")>>),
     EncodeArray(<<Ascii("DEL"), Ascii("k"), Ascii("j")>>)}

\* two commands and the first bytes of a third
PipelinedStream ==
    SetCommand(Ascii("k"), Ascii("v")) \o GetCommand(Ascii("k"))
    \o SubSeq(GetCommand(Ascii("j")), 1, 9)

\* arrays of three byte strings: with CR LF and the magic sequence, and
\* with a NUL byte
BinaryArgs ==
    {<<CRLF, HEARTBEAT_MAGIC, Ascii("x")>>,
     <<Ascii("x"), <<120, 0>>, Ascii("v")>>,
     <<Ascii("SET"), Ascii("k"), HEARTBEAT_MAGIC>>}

BinaryArrays == {EncodeArray(args) : args \in BinaryArgs}

\* a PING behind 0, 1 and 2 magic sequences, and magic sequences alone
MagicStreams ==
    {Times(n, HEARTBEAT_MAGIC) \o PingCommand : n \in 0..2}
    \cup {Times(n, HEARTBEAT_MAGIC) : n \in 1..2}

\* malformed input: count "x", count -1, bulk length "x", bulk length -1,
\* '+' where the bulk header is expected
Malformed ==
    {<<42, 120>> \o CRLF,
     <<42, 45, 49>> \o CRLF,
     <<42, 49>> \o CRLF \o <<36, 120>> \o CRLF,
     <<42, 49>> \o CRLF \o <<36, 45, 49>> \o CRLF \o Ascii("x") \o CRLF,
     <<42, 49>> \o CRLF \o <<43, 79, 75>> \o CRLF}

\* streams a read may cut anywhere
ChunkedStreams == {PipelinedStream} \cup BinaryArrays \cup MagicStreams \cup Malformed

RespStreams == KvCommands \cup ChunkedStreams

\* ---------------------------------------------------------------- actions
\* the peer on fd f writes stream str, the read takes its first cut bytes.
\* Whole commands come at any time, a stream that reads cut starts the
\* behaviour.
RespRead(f, str, cut) ==
    /\ \A g \in Fds : redis.pending[g] = <<>>
    /\ cut \in 1..Len(str)
    /\ str \in ChunkedStreams => redis.nreads = 0
    /\ cut < Len(str) => str \in ChunkedStreams
    /\ redis.alive
    /\ redis.open[f]
    /\ redis.nreads < MaxRespReads
    /\ redis' = handleRead([redis EXCEPT !.written[f] = @ \o str,
                                         !.pending[f] = SubSeq(str, cut + 1, Len(str)),
                                         !.nreads = @ + 1],
                           f, SubSeq(str, 1, cut))
    /\ UNCHANGED <<engine, proto>>

\* the next read on fd f takes the first cut bytes of what is in flight
RespReadRest(f, cut) ==
    /\ cut \in 1..Len(redis.pending[f])
    /\ redis.alive
    /\ redis.open[f]
    /\ redis.nreads < MaxRespReads
    /\ redis' = handleRead([redis EXCEPT !.pending[f] = SubSeq(@, cut + 1, Len(@)),
                                         !.nreads = @ + 1],
                           f, SubSeq(redis.pending[f], 1, cut))
    /\ UNCHANGED <<engine, proto>>

\* recv() returns 0 on fd f: handleClose.  PureRedisProtocol is not told,
\* m_clientBuffers[f] stays
RespEof(f) ==
    /\ redis.alive
    /\ redis.open[f]
    /\ redis.nreads < MaxRespReads
    /\ redis' = [redis EXCEPT !.open[f] = FALSE, !.pending[f] = <<>>,
                              !.nreads = @ + 1]
    /\ UNCHANGED <<engine, proto>>

InitResp ==
    /\ isWebSocket = RespApplication.ws
    /\ respRegistered = RespApplication.resp
    /\ m_heartbeatEnabled = RespApplication.hb
    /\ now = 0
    /\ nframes = 0
    /\ nevents = 0
    /\ osOpen = [f \in Fds |-> FALSE]
    /\ wire = [f \in Fds |-> <<>>]
    /\ io = [f \in Fds |-> "none"]
    /\ m_clients = {}
    /\ m_lastActive = [f \in Fds |-> NoTime]
    /\ m_sendBuffers = [f \in Fds |-> <<>>]
    /\ m_sendMutexes = {}
    /\ m_clientProtocols = [f \in Fds |-> "none"]
    /\ m_clientSendMutexes = {}
    /\ m_clientBuffers = {}
    /\ wsClients = {}
    /\ closers = [f \in Fds |-> [a |-> 0, b |-> 0]]
    /\ rpc = IdleR
    /\ kpc = IdleK
    /\ m_running = TRUE
    /\ stopper = "none"
    /\ onCloseCalls = [f \in Fds |-> 0]
    /\ proto = NoProto
    /\ redis = NewRedis

\* the places where a read can end inside a stream
RespCuts == UNION {1..Len(str) : str \in ChunkedStreams}

NextResp ==
    \/ \E f \in Fds, str \in RespStreams : \E cut \in 1..Len(str) : RespRead(f, str, cut)
    \/ \E f \in Fds, cut \in RespCuts : RespReadRest(f, cut)
    \/ \E f \in Fds : RespEof(f)

SpecResp == InitResp /\ [][NextResp]_vars

\* ==================================================================
\* ApplicationServer::onDataReceived with both protocols in view: the
\* connection RouterFd with its WebSocketProtocol instance (proto) and the
\* router's PureRedisProtocol (redis)
\* ==================================================================
\* the connection under observation
RouterFd == MaxFd

\* p: the connection's instance afterwards; r: PureRedisProtocol afterwards
Routed(p, r) == [p |-> p, r |-> r]

\* resp: m_router->getProtocol(3) is a PureRedisProtocol.  A chunk that
\* starts with '*' goes to it before m_clientProtocols is looked at; a chunk
\* without an instance that is no handshake request reaches it through the
\* fallback, and nothing happens to it when it is not registered
ApplicationOnDataReceived(p, r, clientFd, data, resp) ==
    IF data[1] = 42 /\ resp THEN Routed(p, onClientDataReceived(r, clientFd, data))
    ELSE IF p.state_ # "none" THEN Routed(ClosedCheck(onDataReceived(p, data)), r)
    ELSE IF IsHandshakeRequest(data)
    THEN Routed(ClosedCheck(onDataReceived(Construct(p), data)), r)
    ELSE IF resp THEN Routed(p, onClientDataReceived(r, clientFd, data))
    ELSE Routed(p, r)

\* first inputs of a connection: the opening requests, an opening request
\* with the Upgrade header in capitals, a RESP PING, and one other byte
RouterInput(name) ==
    CASE name = "caps" ->
            Text(<<"GET ", "/ HTTP/1.1", "\r\n", "UPGRADE: WEBSOCKET", "\r\n",
                   "Sec-WebSocket-Key:", " dGhl", "\r\n",
                   "Sec-WebSocket-Version: 13", "\r\n", "\r\n">>)
      [] name = "ping" -> PingCommand
      [] name = "other" -> Ascii("x")
      [] OTHER -> Request(name)

RouterInputNames == {"upgrade", "lower", "plain", "caps", "ping", "other"}

\* frames of a client: a TEXT frame whose masked payload byte is '*', a TEXT
\* frame "(", a CLOSE frame
RouterFrames ==
    {ClientFrame(TEXT, TRUE, unmaskPayload(<<42>>, MaskKey)),
     ClientFrame(TEXT, TRUE, <<40>>), ClientFrame(CLOSE, TRUE, <<>>)}

\* TcpServer::handleRead, recv() > 0, in front of
\* ApplicationServer::onDataReceived: the leading magic sequences of the
\* chunk are skipped, and m_onMessage is called when bytes are left
handleReadRouted(p, r, clientFd, chunk, resp) ==
    IF SkipMagic(chunk) = <<>> THEN Routed(p, r)
    ELSE ApplicationOnDataReceived(p, r, clientFd, SkipMagic(chunk), resp)

\* handleRead on the connection: recv() returns data
RouterReceive(data, req, rest) ==
    /\ proto.open
    /\ redis.alive
    /\ proto.nreads < MaxReads
    /\ proto' = handleReadRouted(
                   [proto EXCEPT !.req = req, !.rest = rest, !.nreads = @ + 1],
                   redis, RouterFd, data, respRegistered).p
    /\ redis' = handleReadRouted(
                   [proto EXCEPT !.req = req, !.rest = rest, !.nreads = @ + 1],
                   redis, RouterFd, data, respRegistered).r
    /\ UNCHANGED engine

\* the first read: the first cut bytes of the input
RouterReadFirst(name, cut) ==
    /\ proto.nreads = 0
    /\ cut \in 1..Len(RouterInput(name))
    /\ RouterReceive(SubSeq(RouterInput(name), 1, cut), name,
                     SubSeq(RouterInput(name), cut + 1, Len(RouterInput(name))))

\* the next read takes what is in flight
RouterReadRest ==
    /\ proto.rest # <<>>
    /\ RouterReceive(proto.rest, proto.req, <<>>)

\* a read takes the first cut bytes of the client's next frame
RouterReadFrame(fr, cut) ==
    /\ proto.nreads > 0
    /\ proto.rest = <<>>
    /\ cut \in 1..Len(fr)
    /\ RouterReceive(SubSeq(fr, 1, cut), proto.req, SubSeq(fr, cut + 1, Len(fr)))

\* a WebSocketServer, or the server that registers PureRedisProtocol
InitRouter ==
    /\ \E a \in {WebSocketApplication, RespApplication} :
          /\ isWebSocket = a.ws
          /\ respRegistered = a.resp
          /\ m_heartbeatEnabled = a.hb
    /\ now = 0
    /\ nframes = 0
    /\ nevents = 0
    /\ osOpen = [f \in Fds |-> FALSE]
    /\ wire = [f \in Fds |-> <<>>]
    /\ io = [f \in Fds |-> "none"]
    /\ m_clients = {}
    /\ m_lastActive = [f \in Fds |-> NoTime]
    /\ m_sendBuffers = [f \in Fds |-> <<>>]
    /\ m_sendMutexes = {}
    /\ m_clientProtocols = [f \in Fds |-> "none"]
    /\ m_clientSendMutexes = {}
    /\ m_clientBuffers = {}
    /\ wsClients = {}
    /\ closers = [f \in Fds |-> [a |-> 0, b |-> 0]]
    /\ rpc = IdleR
    /\ kpc = IdleK
    /\ m_running = TRUE
    /\ stopper = "none"
    /\ onCloseCalls = [f \in Fds |-> 0]
    /\ proto = NewConnection
    /\ redis = NewRedis

NextRouter ==
    \/ \E name \in RouterInputNames, cut \in 1..128 : RouterReadFirst(name, cut)
    \/ RouterReadRest
    \/ \E fr \in RouterFrames, cut \in 1..16 : RouterReadFrame(fr, cut)
    \/ WsCloser

SpecRouter == InitRouter /\ [][NextRouter]_vars

\* ------------------------------------------------------------------
\* The same connection with a client whose frames can put the bytes
\* FA FB FC FD at the start of a read.
\* ------------------------------------------------------------------
\* the TEXT frame "(" of a client that drew FA FB FC FD as masking key
MagicKeyFrame ==
    <<128 + TEXT, 128 + 1>> \o HEARTBEAT_MAGIC \o unmaskPayload(<<40>>, HEARTBEAT_MAGIC)

\* the unmasked TEXT frame of a peer whose payload is the four bytes
MagicPayloadFrame == <<128 + TEXT, MagicLen>> \o HEARTBEAT_MAGIC

FramedFrames == RouterFrames \cup {MagicKeyFrame, MagicPayloadFrame}

NextFramed ==
    \/ \E name \in RouterInputNames, cut \in 1..128 : RouterReadFirst(name, cut)
    \/ RouterReadRest
    \/ \E fr \in FramedFrames, cut \in 1..16 : RouterReadFrame(fr, cut)
    \/ WsCloser

SpecFramed == InitRouter /\ [][NextFramed]_vars

\* ==================================================================
\* Properties
\* ==================================================================
\* a sequence of pieces as a sequence of bytes <<frame id, offset>>
RECURSIVE Bytes(_)
Bytes(ps) ==
    IF ps = <<>> THEN <<>>
    ELSE [i \in 1..PieceLen(Head(ps)) |-> <<Head(ps).id, Head(ps).lo + i - 1>>]
         \o Bytes(Tail(ps))

\* how many bytes of frame id the sequence of pieces ps holds
RECURSIVE WrittenLen(_, _)
WrittenLen(ps, id) ==
    IF ps = <<>> THEN 0
    ELSE (IF Head(ps).id = id THEN PieceLen(Head(ps)) ELSE 0) + WrittenLen(Tail(ps), id)

HasFrame(ps, id) == \E i \in DOMAIN ps : ps[i].id = id

\* frames encoded by a protocol instance
Encoded(id) == id.k \in {"bc", "reply", "101", "1003"}

\* the part of frame id that some thread still holds for f: queued, or in
\* the hands of broadcast between its ::send and its sendBusinessData
Pending(f, id) ==
    \/ HasFrame(m_sendBuffers[f], id)
    \/ rpc.op = "fallback" /\ Head(rpc.todo) = f /\ rpc.frame = id

\* ------------------------------------------------------------------ C1
\* C1: every frame handed to the engine for fd f is on f's byte stream as
\* one contiguous run: no byte of another frame lies between two bytes of it.
\* (wire[f] merges adjacent pieces of a frame, so a frame in two runs has
\* foreign bytes in between.)
C1_FramesContiguous ==
    \A f \in Fds : \A i, j \in DOMAIN wire[f] :
        wire[f][i].id = wire[f][j].id => i = j

\* ------------------------------------------------------------------ C2
\* C2: a member of the broadcast set receives a broadcast frame completely
\* or not at all, never a truncated one: whenever some bytes of a broadcast
\* frame are on f's stream, either all of them are, or the rest is still
\* held for f (queued, or about to be queued by broadcast).
C2_BroadcastWholeOrNothing ==
    \A f \in Fds : \A i \in DOMAIN wire[f] :
        LET id == wire[f][i].id
        IN  id.k = "bc" =>
                \/ WrittenLen(wire[f], id) = FrameSize(id)
                \/ Pending(f, id)

\* ------------------------------------------------------------------ C3
\* C3: an open fd has at most one send lock, and a closed fd has neither a
\* protocol instance nor a send lock, whichever path closed it.
C3_InstanceAndLockLifetime ==
    \A f \in Fds :
        /\ osOpen[f] => ~(f \in m_sendMutexes /\ f \in m_clientSendMutexes)
        /\ ~osOpen[f] => /\ m_clientProtocols[f] = "none"
                         /\ f \notin m_sendMutexes
                         /\ f \notin m_clientSendMutexes

\* ------------------------------------------------------------------ C4
\* C4: no protocol instance serves two connections: every encoded frame on
\* f's stream was encoded by f's own instance (the router's RESP instance,
\* by = 0, counts as f's own only while no other fd has used it), and the
\* RESP instance decodes for at most one fd.
C4_InstanceNotShared ==
    /\ \A f \in Fds : \A i \in DOMAIN wire[f] :
          LET id == wire[f][i].id
          IN  Encoded(id) =>
                  \/ id.by = f
                  \/ id.by = 0 /\ m_clientBuffers \subseteq {f}
    /\ Cardinality(m_clientBuffers) <= 1

\* ------------------------------------------------------------------ C5
\* what one run of flushSendBuffer on queue q0 of f must do: the bytes it
\* removes from the front of q0 are exactly the bytes it adds to the stream,
\* and the chunks behind the head are left as they were
QueueWrite(f, q0) ==
    LET q1 == m_sendBuffers'[f]
        b0 == Bytes(q0)
        b1 == Bytes(q1)
        k == Len(b0) - Len(b1)
    IN  /\ k >= 0
        /\ b1 = SubSeq(b0, k + 1, Len(b0))
        /\ Bytes(wire'[f]) = Bytes(wire[f]) \o SubSeq(b0, 1, k)
        /\ Len(q1) <= Len(q0)
        /\ \A i \in 2..Len(q1) : q1[i] = q0[i + Len(q0) - Len(q1)]

\* C5: in every step that runs flushSendBuffer on f (the WRITE event, the
\* sendData of a broadcast fallback, the sendData of a heartbeat), the head
\* of the queue is popped only when the kernel took all of it, a short write
\* leaves exactly the unsent suffix at the head, EAGAIN leaves the queue as
\* it was: the bytes written are a prefix of the queued bytes, in order.
C5_DequeueOnlyWritten ==
    [][\A f \in Fds :
          /\ HandleWrite(f) => QueueWrite(f, m_sendBuffers[f])
          /\ (BroadcastFallback /\ Head(rpc.todo) = f) =>
                QueueWrite(f, Append(m_sendBuffers[f],
                                     [WholeFrame(rpc.frame) EXCEPT !.lo = rpc.lo]))
          /\ TickHeartbeat(f) =>
                QueueWrite(f, Append(m_sendBuffers[f], WholeFrame(kpc.frame)))]_vars

\* a short write through the queue happened: the unsent suffix of a
\* heartbeat is at the head of the queue and its prefix ends the stream
C5_Witness ==
    \E f \in Fds :
        /\ m_sendBuffers[f] # <<>>
        /\ Head(m_sendBuffers[f]).id.k = "hb"
        /\ Head(m_sendBuffers[f]).lo > 1
        /\ wire[f] # <<>>
        /\ wire[f][Len(wire[f])] = [id |-> Head(m_sendBuffers[f]).id, lo |-> 1,
                                    hi |-> Head(m_sendBuffers[f]).lo - 1]

\* ------------------------------------------------------------------ C6
\* a sendData or a WRITE-ready drain on f that returns without a send error
SendCompleted(f) ==
    \/ HandleWrite(f) /\ rpc'.op # "flushClose"
    \/ BroadcastFallback /\ Head(rpc.todo) = f /\ rpc'.op # "flushClose"
    \/ TickHeartbeat(f) /\ kpc'.op # "flushClose"

\* a sendData on f that returns after its send failed and handleClose ran
SendFailed(f) == FlushClose /\ rpc.fd = f /\ rpc.after = "sendData"

\* C6: after every completed sendData or WRITE-ready drain on f, WRITE
\* interest is registered for f if and only if f's send queue is non-empty.
C6_WriteInterestIffQueued ==
    [][\A f \in Fds :
          (SendCompleted(f) \/ SendFailed(f)) =>
              ((io'[f] = "RW") <=> (m_sendBuffers'[f] # <<>>))]_vars

\* ------------------------------------------------------------------ C7
\* C7: while f's send queue is non-empty no frame for f is written to the
\* kernel ahead of the queued bytes: a step that adds bytes to f's stream
\* while f's queue is non-empty adds the bytes at the head of the queue.
C7_QueuedBytesGoFirst ==
    [][\A f \in Fds :
          LET old == Bytes(wire[f])
              new == Bytes(wire'[f])
          IN  (m_sendBuffers[f] # <<>> /\ Len(new) > Len(old)) =>
                  new[Len(old) + 1] = Bytes(m_sendBuffers[f])[1]]_vars

\* ------------------------------------------------------------------ C8
\* C8: a connection that the running tick has visited and left in the
\* connection table was not idle for more than the timeout when the tick
\* sampled the clock (a connection idle for longer is evicted by the tick).
C8_IdleEvictedWithinTick ==
    \A f \in m_clients :
        (kpc.op = "scan" /\ f \notin kpc.todo /\ m_lastActive[f] # NoTime) =>
            kpc.tnow - m_lastActive[f] <= HeartbeatTimeout * MsPerSecond

\* ------------------------------------------------------------------ C9
\* this step put the heartbeat of the running tick on f's send path
HeartbeatHanded(f) ==
    /\ HasFrame(wire'[f] \o m_sendBuffers'[f], kpc.frame)
    /\ ~HasFrame(wire[f] \o m_sendBuffers[f], kpc.frame)

CloseStep(f) ==
    \/ HandleReadClose(f)
    \/ FlushClose /\ rpc.fd = f
    \/ ReadHandshake(f, "hsbad")
    \/ ReadFrame(f, "close")
    \/ ReadFrame(f, "badop")
    \/ ReadClosed(f)
    \/ CloserClose(f)
    \/ CloserErase(f)

ClosedAndGone(f) ==
    /\ f \in m_clientSendMutexes
    /\ ~osOpen[f]
    /\ f \notin m_clients
    /\ ClosersOf(f) = 0

\* C11: a connection closed by peer EOF, receive failure, send error, idle
\* eviction or closeClientConnection has produced exactly one disconnect
\* notification for its fd; no connection has produced more than one, and a
\* connection still open has produced none.  (Connections closed by stop()
\* are left out.)
C11_OneDisconnectNotification ==
    \A f \in Fds :
        /\ onCloseCalls[f] <= 1
        /\ (osOpen[f] /\ f \in m_clients) => onCloseCalls[f] = 0
        /\ (stopper = "none" /\ ClosedAndGone(f)) => onCloseCalls[f] = 1

\* ------------------------------------------------------------------ C12
\* stop() has returned
Stopped == stopper = "done"

\* stop() waits for m_mutex, whose owner will never release it
StopStuck == stopper = "lock" /\ kpc.op = "flushClose"

\* what stop() leaves behind: no open connection, none registered with the
\* multiplexer, an empty connection table
StopLeavesNothing ==
    Stopped => /\ m_clients = {}
               /\ \A f \in Fds : ~osOpen[f] /\ io[f] = "none"

\* C12: stop() returns without waiting on anything that will not happen, and
\* once it has returned every accepted connection is closed and removed from
\* the multiplexer and the connection table is empty
C12_StopClosesEverything == StopLeavesNothing /\ ~StopStuck

\* ------------------------------------------------------------------ C13
\* State, in the order of the enum
Rank(st) ==
    CASE st = "CONNECTING" -> 1
      [] st = "OPEN" -> 2
      [] st = "CLOSING" -> 3
      [] st = "CLOSED" -> 4

\* C13: an instance starts in CONNECTING; inbound data only moves it forward
\* along CONNECTING, OPEN, CLOSING, CLOSED; once it is CLOSED a further
\* onDataReceived changes neither its state nor its buffer, delivers nothing
\* and emits nothing
C13_ForwardOnlyClosedTerminal ==
    [][/\ Construct(proto).state_ = "CONNECTING"
       /\ (proto.state_ = "none" /\ proto'.state_ # "none")
              => Rank(proto'.state_) > Rank(Construct(proto).state_)
       /\ (proto.state_ # "none" /\ proto'.state_ # "none")
              => Rank(proto'.state_) >= Rank(proto.state_)
       /\ (proto.state_ = "CLOSED" /\ WsRead)
              => /\ proto'.state_ = "CLOSED"
                 /\ proto'.buffer_ = proto.buffer_
                 /\ proto'.delivered = proto.delivered
                 /\ proto'.sent = proto.sent]_vars

\* a CLOSED instance has been handed data
C13_Witness == proto.state_ = "CLOSED" /\ proto.ignored > 0

\* ------------------------------------------------------------------ C14
\* requests that begin with "GET " and carry an Upgrade header containing
\* websocket and a Sec-WebSocket-Key header
WellFormedRequests == {"upgrade", "lower"}

\* the 101 responses sent so far
Responses == SelectSeq(proto.sent, LAMBDA m : m.k = "101")

\* the connection is closed or a close of it is under way
Closing == ~proto.open \/ proto.closers > 0

\* the first read took a whole well-formed request
WholeRequestRead ==
    proto.nreads = 1 /\ proto.rest = <<>> /\ proto.req \in WellFormedRequests

\* a whole well-formed request gets exactly one 101 response, computed from
\* its key, and the instance is OPEN
HandshakeAccepted ==
    WholeRequestRead =>
        /\ proto.state_ = "OPEN"
        /\ Responses = <<generateHandshakeResponse(Trim(Ascii(" dGhl")))>>

\* what the first read took of the request
FirstChunk ==
    SubSeq(Request(proto.req), 1, Len(Request(proto.req)) - Len(proto.rest))

\* the first read created an instance, in CONNECTING, and fed it
FedConnecting == proto.nreads = 1 /\ IsHandshakeRequest(FirstChunk)

\* C14: an instance in CONNECTING fed a whole well-formed request has sent
\* exactly one 101 response and is OPEN; fed a malformed request, or a
\* request of which only a part has arrived, it has sent no 101 response, it
\* is CLOSED (or already erased by the close) and the connection is being
\* closed
C14_HandshakeAcceptOrClose ==
    /\ HandshakeAccepted
    /\ (FedConnecting /\ ~WholeRequestRead) =>
          /\ Responses = <<>>
          /\ proto.state_ = "CLOSED" \/ ~proto.open
          /\ Closing

\* ------------------------------------------------------------------ C15
\* the outcome of a whole well-formed request read at once: OPEN, one 101
\* response computed from the request's key
SingleReadOutcome ==
    /\ proto.state_ = "OPEN"
    /\ Responses = <<generateHandshakeResponse(Trim(Ascii(" dGhl")))>>

\* C15: when a well-formed request arrives in two reads, cut at any byte,
\* the connection is after the second read as after a single read of the
\* whole request: its instance is OPEN and exactly one 101 response has been
\* sent
C15_SplitHandshakeCompletes ==
    [][(WsReadRest /\ proto.nreads = 1 /\ proto.req \in WellFormedRequests)
          => SingleReadOutcome']_vars

\* ------------------------------------------------------------------ C16
\* the opcodes the claim calls handled
HandledOpcodes == {CONTINUATION, TEXT, BINARY, CLOSE, PING, PONG}

\* m is a CLOSE frame carrying status code c
IsClose(m, c) ==
    /\ m.k = "frame"
    /\ Len(m.b) >= 4
    /\ BitAnd(m.b[1], 15) = CLOSE
    /\ readUint(m.b, 3, 2) = c

\* what the step has sent
NewlySent == SubSeq(proto'.sent, Len(proto.sent) + 1, Len(proto'.sent))

\* the step reads the whole frame fr into an OPEN instance with an empty
\* buffer
ReadsWholeFrame(fr) ==
    /\ proto.state_ = "OPEN"
    /\ proto.buffer_ = <<>>
    /\ fr # OversizeHeader
    /\ WsReadFrame(fr, Len(fr))

\* C16: a complete frame read in OPEN causes a CLOSE frame with code 1003
\* and the transition to CLOSED exactly when its opcode is none of
\* CONTINUATION, TEXT, BINARY, CLOSE, PING, PONG
C16_Close1003IffUnhandledOpcode ==
    [][\A fr \in ClientFrames :
          ReadsWholeFrame(fr) =>
             ((/\ \E i \in 1..Len(NewlySent) : IsClose(NewlySent[i], 1003)
               /\ proto'.state_ = "CLOSED")
              <=> BitAnd(fr[1], 15) \notin HandledOpcodes)]_vars

\* ------------------------------------------------------------------ C17
\* the MASK bit of the frame's second byte
MaskBit(fr) == BitAnd(fr[2], 128)

\* C17: a complete TEXT or BINARY frame whose MASK bit is 0, read in OPEN,
\* is not delivered to the application callback
C17_UnmaskedNeverDelivered ==
    [][\A fr \in ClientFrames :
          (/\ ReadsWholeFrame(fr)
           /\ BitAnd(fr[1], 15) \in {TEXT, BINARY}
           /\ MaskBit(fr) = 0)
          => proto'.delivered = proto.delivered]_vars

\* ------------------------------------------------------------------ C18
\* the size of a frame that starts with the header bytes b and carries no
\* masking key
UnmaskedSize(b) ==
    LET len7 == BitAnd(b[2], 127)
    IN  IF len7 < 126 THEN 2 + len7
        ELSE IF len7 = 126 THEN 4 + readUint(b, 3, 2)
        ELSE 10 + readUint(b, 3, 8)

\* the frame types a server can produce
ServerOpcodes == {TEXT, BINARY, PING, PONG, CLOSE}

\* C18: every frame the server produces has MASK bit 0 and carries no
\* masking key (its size is the header plus the payload), for every frame
\* type and payload length and whatever the connection received before
C18_ServerFramesNeverMasked ==
    /\ \A i \in 1..Len(proto.sent) :
          proto.sent[i].k = "frame" =>
             /\ Len(proto.sent[i].b) >= 2
             /\ MaskBit(proto.sent[i].b) = 0
             /\ UnmaskedSize(proto.sent[i].b)
                   = Len(proto.sent[i].b) + proto.sent[i].more
    /\ \A opcode \in ServerOpcodes : \A n \in BroadcastLens \cup {0} :
          /\ MaskBit(FrameHead(opcode, n, TRUE)) = 0
          /\ UnmaskedSize(FrameHead(opcode, n, TRUE))
                = Len(FrameHead(opcode, n, TRUE)) + n

\* a client frame was delivered and answered, and the server has since sent
\* a frame with a 64-bit length
C18_Witness ==
    /\ proto.delivered # <<>>
    /\ Len(proto.sent) >= 3
    /\ proto.sent[Len(proto.sent)].k = "frame"
    /\ proto.sent[Len(proto.sent)].more = 65536

\* ------------------------------------------------------------------ C19
\* byte i of s exists and lies in lo..hi
ByteIn(s, i, lo, hi) == i <= Len(s) /\ s[i] >= lo /\ s[i] <= hi

RECURSIVE WellFormedFrom(_, _)
\* the bytes of s from position i on are well-formed UTF-8 as RFC 3629
\* section 4 defines it: no overlong forms, no surrogates, nothing above
\* U+10FFFF, no truncated sequence, no stray continuation byte
WellFormedFrom(s, i) ==
    IF i > Len(s) THEN TRUE
    ELSE IF s[i] <= 127 THEN WellFormedFrom(s, i + 1)
    ELSE IF ByteIn(s, i, 194, 223)
    THEN ByteIn(s, i + 1, 128, 191) /\ WellFormedFrom(s, i + 2)
    ELSE IF ByteIn(s, i, 224, 239)
    THEN /\ ByteIn(s, i + 1, IF s[i] = 224 THEN 160 ELSE 128,
                              IF s[i] = 237 THEN 159 ELSE 191)
         /\ ByteIn(s, i + 2, 128, 191)
         /\ WellFormedFrom(s, i + 3)
    ELSE IF ByteIn(s, i, 240, 244)
    THEN /\ ByteIn(s, i + 1, IF s[i] = 240 THEN 144 ELSE 128,
                              IF s[i] = 244 THEN 143 ELSE 191)
         /\ ByteIn(s, i + 2, 128, 191)
         /\ ByteIn(s, i + 3, 128, 191)
         /\ WellFormedFrom(s, i + 4)
    ELSE FALSE

\* strict UTF-8 validity
StrictUtf8(s) == WellFormedFrom(s, 1)

\* the CLOSE frames among what the step has sent
NewCloseFrames ==
    {i \in 1..Len(NewlySent) :
        NewlySent[i].k = "frame" /\ BitAnd(NewlySent[i].b[1], 15) = CLOSE}

\* C19: a TEXT frame whose unmasked payload is not valid UTF-8 is not
\* delivered; the server emits exactly one CLOSE frame, with code 1007, the
\* instance becomes CLOSED, and the socket is still open when the frame has
\* been sent, its close being under way
C19_InvalidUtf8Closes1007 ==
    [][\A masked \in BOOLEAN : \A pl \in Payloads :
          (/\ ReadsWholeFrame(ClientFrame(TEXT, masked, pl))
           /\ ~StrictUtf8(pl))
          => /\ proto'.delivered = proto.delivered
             /\ Cardinality(NewCloseFrames) = 1
             /\ \A i \in NewCloseFrames : IsClose(NewlySent[i], 1007)
             /\ proto'.state_ = "CLOSED"
             /\ proto'.open
             /\ proto'.closers > proto.closers]_vars

\* ------------------------------------------------------------------ C20
\* C20: the payload of every TEXT frame delivered to the application is
\* valid UTF-8 under strict validation: no overlong encoding, surrogate,
\* code point above U+10FFFF, truncated sequence or stray continuation byte
C20_DeliveredTextIsStrictUtf8 ==
    \A i \in 1..Len(proto.delivered) :
       proto.delivered[i].opcode = TEXT => StrictUtf8(proto.delivered[i].payload)

\* ------------------------------------------------------------------ C21
\* m is an unmasked final PONG frame with payload pl (shorter than 126)
IsPong(m, pl) ==
    /\ m.k = "frame"
    /\ m.more = 0
    /\ m.b = <<128 + PONG, Len(pl)>> \o pl

\* the PONG frames among what the step has sent
NewPongFrames ==
    {i \in 1..Len(NewlySent) :
        NewlySent[i].k = "frame" /\ BitAnd(NewlySent[i].b[1], 15) = PONG}

\* the step reads into an OPEN instance with an empty buffer
ReadsInOpen == proto.state_ = "OPEN" /\ proto.buffer_ = <<>>

ReadsPartOfFrame(fr, cut) ==
    /\ ReadsInOpen
    /\ fr # OversizeHeader
    /\ cut < Len(fr)
    /\ WsReadFrame(fr, cut)

\* the step reads the rest of a frame whose first part is in buffer_
ReadsRestOfFrame ==
    /\ proto.state_ = "OPEN"
    /\ proto.buffer_ # <<>>
    /\ proto.buffer_ \o proto.rest \in ClientFrames \ {OversizeHeader}
    /\ WsReadRest

\* the connection after one read of the whole frame instead of the two
InOneDelivery ==
    AppOnDataReceived([proto EXCEPT !.buffer_ = <<>>, !.rest = <<>>,
                                    !.nreads = @ + 1],
                      proto.buffer_ \o proto.rest)

\* the second read found the frame as one delivery would have
SameAsInOneDelivery ==
    /\ proto'.state_ = InOneDelivery.state_
    /\ proto'.sent = InOneDelivery.sent
    /\ proto'.delivered = InOneDelivery.delivered
    /\ proto'.buffer_ = InOneDelivery.buffer_
    /\ proto'.closers = InOneDelivery.closers
    /\ Len(proto'.delivered) <= Len(proto.delivered) + 1

\* C22: with fewer bytes than the frame's header or payload requires the
\* instance consumes nothing, reports 0, delivers and sends nothing and
\* keeps its state; when the missing bytes arrive the frame is parsed once,
\* with the result of a single delivery
C22_ParserRestartable ==
    [][/\ \A fr \in ClientFrames : \A cut \in {1, Len(fr) - 1} :
             ReadsPartOfFrame(fr, cut)
             => /\ proto'.buffer_ = SubSeq(fr, 1, cut)
                /\ proto'.processed = 0
                /\ proto'.delivered = proto.delivered
                /\ proto'.sent = proto.sent
                /\ proto'.state_ = "OPEN"
       /\ ReadsRestOfFrame => SameAsInOneDelivery]_vars

\* the restart alone: what C22 says of the second delivery
RestartGivesSameResult == [][ReadsRestOfFrame => SameAsInOneDelivery]_vars

\* ------------------------------------------------------------------ C23
\* an OPEN instance that has nothing buffered, sent or delivered
FreshOpen == [NewConnection EXCEPT !.state_ = "OPEN"]

\* r, the result of parseFrame on frame, is a TEXT delivery of payload that
\* consumed the whole frame
ParsedAsText(payload, frame, r) ==
    /\ frame # <<>>
    /\ r.ret
    /\ r.bytesConsumed = Len(frame)
    /\ r.p.delivered = <<[opcode |-> TEXT, payload |-> payload]>>

\* parsing what packTextMessage makes of payload gives payload back
RoundTrips(payload) ==
    ParsedAsText(payload, packTextMessage(payload),
                 parseFrame(FreshOpen, packTextMessage(payload)))

\* parseFrameHeader reads the header bytes b as an unmasked TEXT header of
\* Len(b) bytes announcing n payload bytes
DecodesTo(b, n) ==
    /\ parseFrameHeader(b).ok
    /\ parseFrameHeader(b).opcode = TEXT
    /\ parseFrameHeader(b).payload_length = n
    /\ parseFrameHeader(b).headerSize = Len(b)
    /\ Len(b) = IF n < 126 THEN 2 ELSE IF n <= 65535 THEN 4 ELSE 10

ReadSoFar(f) ==
    SubSeq(redis.written[f], 1, Len(redis.written[f]) - Len(redis.pending[f]))

\* no other connection has written anything
OnlyWriter(f) == \A g \in Fds \ {f} : redis.written[g] = <<>>

\* the server after one read of everything read so far on fd f
InOneRead(f) == handleRead(NewRedis, f, ReadSoFar(f))

\* the reads on fd f left what one read of the same bytes leaves
SameAsInOneRead(f) ==
    /\ redis.alive = InOneRead(f).alive
    /\ redis.replies = InOneRead(f).replies
    /\ redis.executed = InOneRead(f).executed
    /\ redis.m_stringData = InOneRead(f).m_stringData
    /\ redis.m_clientBuffers = InOneRead(f).m_clientBuffers

\* streams of complete array commands, the first with an incomplete one
\* behind: ASCII only, and with CR LF and the magic sequence in bulk strings
ArrayStreams ==
    {PipelinedStream, SetCommand(Ascii("k"), HEARTBEAT_MAGIC),
     EncodeArray(<<CRLF, HEARTBEAT_MAGIC, Ascii("x")>>)}

\* PipelinedStream is read: its two commands ran once each, in order, the
\* replies are +OK and the bulk string v, and the incomplete third command
\* is what the buffer holds
PipelinedOutcome(f) ==
    /\ redis.executed = <<[fd |-> f, args |-> <<Ascii("SET"), Ascii("k"), Ascii("v")>>],
                          [fd |-> f, args |-> <<Ascii("GET"), Ascii("k")>>]>>
    /\ redis.replies[f] = <<formatSimpleString(Ascii("OK")),
                            formatBulkString(Ascii("v"))>>
    /\ redis.m_clientBuffers[f] = SubSeq(GetCommand(Ascii("j")), 1, 9)

\* C24: RESP decoding does not depend on how the stream is split into
\* reads: the replies, the commands executed and the buffered tail after
\* any chunking are those of a single read of the same bytes; k complete
\* commands give k replies in order and the incomplete tail stays buffered
C24_RespChunkingIndependent ==
    \A f \in Fds :
       (OnlyWriter(f) /\ redis.open[f] /\ redis.written[f] \in ArrayStreams)
       => /\ SameAsInOneRead(f)
          /\ (redis.written[f] = PipelinedStream /\ redis.pending[f] = <<>>)
                => PipelinedOutcome(f)

\* the same for the stream of ASCII commands only
PipelinedChunkingIndependent ==
    \A f \in Fds :
       (OnlyWriter(f) /\ redis.open[f] /\ redis.written[f] = PipelinedStream)
       => /\ SameAsInOneRead(f)
          /\ redis.pending[f] = <<>> => PipelinedOutcome(f)

\* ------------------------------------------------------------------ C25
\* this step is the read of a whole malformed input, the first bytes of fd f
ReadsMalformed(f) ==
    /\ redis.written[f] = <<>>
    /\ redis'.written[f] \in Malformed
    /\ redis'.pending[f] = <<>>

\* C25: malformed RESP input is fatal for its connection only: the read
\* closes that connection, executes no command, leaves the process and
\* the other connections running, and leaves no malformed bytes buffered
C25_MalformedClosesConnectionOnly ==
    [][\A f \in Fds :
          ReadsMalformed(f)
          => /\ redis'.alive
             /\ ~redis'.open[f]
             /\ redis'.executed = redis.executed
             /\ redis'.m_clientBuffers[f] = <<>>
             /\ \A g \in Fds \ {f} : redis'.open[g] = redis.open[g]]_vars

\* the part of it the code keeps for a negative array count: the process
\* and the connections keep running, no command runs, nothing stays buffered
NegativeCountIsSkipped ==
    [][\A f \in Fds :
          (ReadsMalformed(f) /\ redis'.written[f] = <<42, 45, 49>> \o CRLF)
          => /\ redis'.alive
             /\ redis'.executed = redis.executed
             /\ redis'.m_clientBuffers[f] = <<>>
             /\ redis'.open = redis.open]_vars

\* ------------------------------------------------------------------ C26
\* this step is one read of the whole array encoding of args, the first
\* bytes of fd f
ReadsArrayOf(f, args) ==
    /\ redis.written[f] = <<>>
    /\ redis'.written[f] = EncodeArray(args)
    /\ redis'.pending[f] = <<>>

\* the decoder handed exactly args to the command execution and consumed
\* exactly the bytes read
DecodedExactly(f, args) ==
    /\ redis'.alive
    /\ redis'.executed = Append(redis.executed, [fd |-> f, args |-> args])
    /\ Len(redis'.replies[f]) = Len(redis.replies[f]) + 1
    /\ redis'.m_clientBuffers[f] = <<>>

\* C26: RESP round trip: the array encoding of byte strings [a, b, c], with
\* NUL bytes, CR LF or FA FB FC FD in them, decodes to exactly [a, b, c]
\* and exactly the encoded bytes are consumed
C26_RespRoundTrip ==
    [][\A f \in Fds, args \in BinaryArgs :
          ReadsArrayOf(f, args) => DecodedExactly(f, args)]_vars

\* the round trip of the byte strings that hold no NUL byte
RoundTripWithoutNul ==
    [][\A f \in Fds, args \in BinaryArgs :
          (ReadsArrayOf(f, args) /\ \A i \in 1..Len(args) : args[i] = filterNullBytes(args[i]))
          => DecodedExactly(f, args)]_vars

\* ------------------------------------------------------------------ C27
\* a PING behind n magic sequences
PrefixedPing(n) == Times(n, HEARTBEAT_MAGIC) \o PingCommand

\* what the PING alone gives on fd f: one PING executed for f, +PONG the
\* one reply, nothing left in the buffer
AnsweredAsPing(r, f) ==
    /\ r.alive
    /\ SelectSeq(r.executed, LAMBDA e : e.fd = f) = <<[fd |-> f, args |-> <<Ascii("PING")>>]>>
    /\ r.replies[f] = <<formatSimpleString(Ascii("PONG"))>>
    /\ r.m_clientBuffers[f] = <<>>

\* this step is one read of n >= 1 magic sequences and nothing else, the
\* first bytes of fd f
ReadsOnlyMagic(f, n) ==
    /\ redis.written[f] = <<>>
    /\ redis'.written[f] = Times(n, HEARTBEAT_MAGIC)
    /\ redis'.pending[f] = <<>>

\* the protocol's members and what it sent
ProtocolState(r) == <<r.alive, r.m_clientBuffers, r.m_stringData, r.replies, r.executed>>

Nil == <<-1>>

IsSet(args) == Len(args) = 3 /\ args[1] = Ascii("SET")
IsGet(args) == Len(args) = 2 /\ args[1] = Ascii("GET")
IsDel(args) == Len(args) >= 2 /\ args[1] = Ascii("DEL")

RECURSIVE LatestWrite(_, _)
\* the value the latest write to key in the history h of executed commands
\* left: v after SET key v, Nil after a DEL that names key or with no write
LatestWrite(h, key) ==
    IF h = <<>> THEN Nil
    ELSE IF IsSet(h[Len(h)].args) /\ h[Len(h)].args[2] = key THEN h[Len(h)].args[3]
    ELSE IF IsDel(h[Len(h)].args) /\ \E i \in 2..Len(h[Len(h)].args) : h[Len(h)].args[i] = key
    THEN Nil
    ELSE LatestWrite(SubSeq(h, 1, Len(h) - 1), key)

\* the keys the commands of the history name
KeysIn(h) == UNION {{h[j].args[i] : i \in 2..Len(h[j].args)} : j \in 1..Len(h)}

\* the reply the laws give to command args after history h
LawfulReply(h, args) ==
    IF IsGet(args)
    THEN (IF LatestWrite(h, args[2]) = Nil THEN Ascii("$-1") \o CRLF
          ELSE formatBulkString(LatestWrite(h, args[2])))
    ELSE formatInteger(Cardinality({key \in {args[i] : i \in 2..Len(args)} :
                                       LatestWrite(h, key) # Nil}))

\* the reply sent for the j-th executed command
ReplyTo(r, j) ==
    r.replies[r.executed[j].fd]
             [Cardinality({i \in 1..j : r.executed[i].fd = r.executed[j].fd})]

\* every GET and DEL of the history was answered as the laws say, and the
\* store holds exactly the latest writes
KvLawful(r) ==
    /\ \A j \in 1..Len(r.executed) :
          (IsGet(r.executed[j].args) \/ IsDel(r.executed[j].args))
          => ReplyTo(r, j) = LawfulReply(SubSeq(r.executed, 1, j - 1), r.executed[j].args)
    /\ \A key \in KeysIn(r.executed) :
          IF LatestWrite(r.executed, key) = Nil
          THEN key \notin DOMAIN r.m_stringData
          ELSE /\ key \in DOMAIN r.m_stringData
               /\ r.m_stringData[key] = LatestWrite(r.executed, key)
    /\ DOMAIN r.m_stringData \subseteq KeysIn(r.executed)

\* this step executes one command, a SET k v right after a SET k v
SetsAgain ==
    /\ redis.executed # <<>>
    /\ Len(redis'.executed) = Len(redis.executed) + 1
    /\ SubSeq(redis'.executed, 1, Len(redis.executed)) = redis.executed
    /\ IsSet(redis'.executed[Len(redis'.executed)].args)
    /\ redis'.executed[Len(redis'.executed)].args = redis.executed[Len(redis.executed)].args

\* C28: over the whole history of commands of all connections, GET k is
\* answered with the value of the latest SET k v not followed by a DEL of k
\* and with nil otherwise, DEL with the number of keys it removed, the
\* store holds exactly the latest writes, and a SET k v right after a
\* SET k v leaves the store as it was
C28_KvLaws ==
    [][/\ KvLawful(redis')
       /\ SetsAgain => redis'.m_stringData = redis.m_stringData]_vars

\* SET k v, then SET k w, then GET k answered with w
C28_Witness ==
    /\ Len(redis.executed) = 3
    /\ redis.executed[1].args = <<Ascii("SET"), Ascii("k"), Ascii("v")>>
    /\ redis.executed[2].args = <<Ascii("SET"), Ascii("k"), Ascii("w")>>
    /\ redis.executed[3].args = <<Ascii("GET"), Ascii("k")>>
    /\ redis.executed[3].fd # redis.executed[1].fd
    /\ ReplyTo(redis, 3) = formatBulkString(Ascii("w"))

\* ------------------------------------------------------------------ C29
\* the step handed data to the connection's instance and to nothing else
ForwardedToInstance(data, req, rest) ==
    /\ proto' = ClosedCheck(onDataReceived(
                   [proto EXCEPT !.req = req, !.rest = rest, !.nreads = @ + 1], data))
    /\ redis' = redis

\* the TEXT frame whose seventh byte, the masked payload, is '*'
StarFrame == ClientFrame(TEXT, TRUE, unmaskPayload(<<42>>, MaskKey))

\* C29: once the connection has an instance, every later chunk goes to that
\* instance and to no other protocol handler, whatever its first byte is
C29_ChunksGoToAssignedInstance ==
    [][proto.state_ # "none"
       => /\ RouterReadRest => ForwardedToInstance(proto.rest, proto.req, <<>>)
          /\ \A fr \in RouterFrames, cut \in 1..16 :
                RouterReadFrame(fr, cut)
                => ForwardedToInstance(SubSeq(fr, 1, cut), proto.req,
                                       SubSeq(fr, cut + 1, Len(fr)))]_vars

\* the same on a server whose router has no PureRedisProtocol
ChunksGoToInstanceWithoutResp ==
    [][(proto.state_ # "none" /\ ~respRegistered)
       => /\ RouterReadRest => ForwardedToInstance(proto.rest, proto.req, <<>>)
          /\ \A fr \in RouterFrames, cut \in 1..16 :
                RouterReadFrame(fr, cut)
                => ForwardedToInstance(SubSeq(fr, 1, cut), proto.req,
                                       SubSeq(fr, cut + 1, Len(fr)))]_vars

\* ------------------------------------------------------------------ C30
\* this step is the first read of the connection and takes the whole input
FirstReadOf(name) ==
    /\ proto.nreads = 0
    /\ proto'.nreads = 1
    /\ proto'.req = name
    /\ proto'.rest = <<>>

\* the connection's instance before the read, with the read counted
Counted(name) == [proto EXCEPT !.req = name, !.rest = <<>>, !.nreads = @ + 1]

\* the input went to the RESP decoder and no instance was created
SelectsResp(name) ==
    /\ redis' = onClientDataReceived(redis, RouterFd, RouterInput(name))
    /\ proto' = Counted(name)

\* a fresh WebSocketProtocol was created for the connection and fed the input
SelectsWebSocket(name) ==
    /\ proto' = ClosedCheck(onDataReceived(Construct(Counted(name)), RouterInput(name)))
    /\ proto'.state_ # "none"
    /\ redis' = redis

\* the input reached no decoder, no instance was created and the close of
\* the connection was started
Rejected(name) ==
    /\ redis' = redis
    /\ proto'.state_ = "none"
    /\ proto'.buffer_ = <<>>
    /\ proto'.closers > 0

\* C30: on a connection without an instance, a first byte '*' selects RESP,
\* a GET request with an Upgrade header of value websocket in any case
\* selects a fresh WebSocket instance, and any other first input is
\* rejected: the connection is closed and no decoder sees the input
C30_DetectionOrReject ==
    [][/\ (FirstReadOf("ping") /\ respRegistered) => SelectsResp("ping")
       /\ \A name \in {"upgrade", "lower", "caps"} :
             FirstReadOf(name) => SelectsWebSocket(name)
       /\ \A name \in {"plain", "other"} :
             FirstReadOf(name) => Rejected(name)]_vars

\* the part of it the code keeps: '*' selects RESP, and the requests with
\* the header spelled "Upgrade: websocket" or "upgrade: websocket" select
\* a fresh WebSocket instance
DetectsRespAndUpgrade ==
    [][/\ (FirstReadOf("ping") /\ respRegistered) => SelectsResp("ping")
       /\ \A name \in {"upgrade", "lower"} :
             FirstReadOf(name) => SelectsWebSocket(name)]_vars

\* ------------------------------------------------------------------ C31
\* this step is a handleRead on f whose recv() returned data
SuccessfulRead(f) ==
    \/ ReadResp(f)
    \/ \E kind \in ChunkKinds : ReadHandshake(f, kind)
    \/ ReadUnknown(f)
    \/ \E kind \in ChunkKinds : ReadFrame(f, kind)
    \/ ReadClosed(f)

\* this step removed f's entry of m_lastActive together with its entry of
\* the connection table
ErasedWithConnection(f) ==
    /\ f \in m_clients
    /\ f \notin m_clients'
    /\ m_lastActive'[f] = NoTime

\* C31: m_lastActive[f] is set to the current instant by the accept of f and
\* by every read on f that returned data; no other step gives it another
\* instant: sends, heartbeats, WRITE-ready drains, failed sends and reads
\* that return 0 leave it as it is, or erase it with the connection's
\* table entry when they close the connection
C31_LastActiveOnlyByReads ==
    [][\A f \in Fds :
          IF HandleAccept(f) \/ SuccessfulRead(f)
          THEN m_lastActive'[f] = now
          ELSE m_lastActive'[f] = m_lastActive[f] \/ ErasedWithConnection(f)]_vars

\* a heartbeat went out to a connection, and a drain of its queue followed,
\* after the clock moved on: last-active is still the instant of the accept
C31_Witness ==
    \E f \in m_clients :
       /\ osOpen[f]
       /\ \E i \in DOMAIN wire[f] : wire[f][i].id.k = "hb" /\ wire[f][i].hi = MagicLen
       /\ now > 0
       /\ m_lastActive[f] = 0

\* ===================================================================
\* The event loop.  One iteration of run() takes one entry (fd, mask) of
\* what wait() returned and dispatches it; the engine above takes the READ
\* and the WRITE event of an fd as two entries.
\* ===================================================================
EventMasks == {"R", "W", "RW"}

HasRead(mask) == mask \in {"R", "RW"}
HasWrite(mask) == mask \in {"W", "RW"}

\* the reactor holding the entry (f, mask) of activeEvents
Reported(f, mask) == [op |-> "event", fd |-> f, frame |-> NoFrame, todo |-> <<>>,
                      lo |-> 0, after |-> "none", mask |-> mask]

\* wait() returns an entry for f: READ when the peer's bytes (or its FIN)
\* are there, WRITE when WRITE interest is registered and the socket buffer
\* has room
TkWait(f, mask) ==
    /\ rpc.op = "idle" /\ m_running
    /\ osOpen[f] /\ io[f] # "none"
    /\ mask \in EventMasks
    /\ HasWrite(mask) => io[f] = "RW"
    /\ rpc' = Reported(f, mask)
    /\ UNCHANGED <<config, m_running, stopper, proto, redis, onCloseCalls, now, nframes,
                   nevents, osOpen, wire, io, m_clients, m_lastActive, m_sendBuffers,
                   m_sendMutexes, m_clientProtocols, m_clientSendMutexes,
                   m_clientBuffers, wsClients, closers, kpc>>

\* the outcomes of flushSendBuffer on a socket that was reported writable:
\* the first send() takes at least one byte or fails
FlushWritable(open, q) ==
    {fl \in flushSendBuffer(open, q) : fl.err \/ fl.out # <<>> \/ q = <<>>}

\* the body of run()'s loop for the entry in hand: READ first, else WRITE
TkDispatch ==
    /\ rpc.op = "event"
    /\ LET f == rpc.fd
       IN  IF HasRead(rpc.mask)
           THEN \/ \* handleRead: recv() > 0, the chunk goes to the application
                   /\ m_lastActive' = [m_lastActive EXCEPT ![f] = now]
                   /\ rpc' = IdleR
                   /\ UNCHANGED <<m_sendBuffers, m_sendMutexes, osOpen, m_clients,
                                  onCloseCalls, io, wire>>
                \/ \* handleRead: recv() = 0: handleClose
                   /\ handleClose(f)
                   /\ io' = IoAfterHandleClose(f)
                   /\ rpc' = IdleR
                   /\ UNCHANGED wire
           ELSE \* lock_guard(getSendMutex(fd)); flushSendBuffer(fd)
                /\ m_sendMutexes' = m_sendMutexes \cup {f}
                /\ \E fl \in FlushWritable(osOpen[f], m_sendBuffers[f]) :
                      /\ m_sendBuffers' = [m_sendBuffers EXCEPT ![f] = fl.q]
                      /\ wire' = [wire EXCEPT ![f] = WireAppendAll(@, fl.out)]
                      /\ io' = IoAfterFlush(io, f, fl)
                      /\ rpc' = IF fl.err
                                THEN [IdleR EXCEPT !.op = "flushClose", !.fd = f,
                                                   !.after = "drain"]
                                ELSE IdleR
                /\ UNCHANGED <<osOpen, m_clients, m_lastActive, onCloseCalls>>
    /\ UNCHANGED <<config, m_running, stopper, proto, redis, now, nframes, nevents,
                   m_clientProtocols, m_clientSendMutexes, m_clientBuffers,
                   wsClients, closers, kpc>>

\* the application calls sendBusinessData(f, frame) between two iterations
TkSend(f) ==
    /\ Deliver
    /\ rpc.op = "idle" /\ m_running
    /\ f \in m_clients /\ osOpen[f]
    /\ nframes < MaxFrames
    /\ nframes' = nframes + 1
    /\ LET c == WholeFrame([k |-> "bc", n |-> nframes + 1, by |-> f])
       IN  \E fl \in flushSendBuffer(osOpen[f], Append(m_sendBuffers[f], c)) :
              /\ SendDataEffects(f, c, fl)
              /\ rpc' = IF fl.err
                        THEN [IdleR EXCEPT !.op = "flushClose", !.fd = f,
                                           !.todo = <<f>>, !.after = "sendData"]
                        ELSE IdleR
    /\ UNCHANGED <<config, m_running, stopper, proto, redis, onCloseCalls, now, osOpen,
                   m_clients, m_lastActive, m_clientProtocols, m_clientSendMutexes,
                   m_clientBuffers, wsClients, closers, kpc>>

NextTick ==
    \/ \E f \in Fds : HandleAccept(f)
    \/ \E f \in Fds : TkSend(f)
    \/ \E f \in Fds, mask \in EventMasks : TkWait(f, mask)
    \/ TkDispatch
    \/ FlushClose

SpecTick == Init /\ [][NextTick]_vars

\* the loop of run() goes on for ever, and the kernel reports WRITE for f
\* again and again while f has WRITE interest
WriteReported(f) == \E mask \in {"W", "RW"} : TkWait(f, mask)

FairSpecTick ==
    /\ SpecTick
    /\ WF_vars(TkDispatch)
    /\ WF_vars(FlushClose)
    /\ \A f \in Fds : SF_vars(WriteReported(f))

\* ===================================================================
\* Lock scopes.  The engine above takes a handler as one step; here the
\* reactor and the keepalive thread move from one lock_guard to the next, so
\* that a state shows which locks a thread holds.  rpc and kpc are the two
\* threads' positions; the kernel's byte stream is not followed.
\* ===================================================================
Lock(name, f) == [name |-> name, fd |-> f]
NoLock == Lock("none", 0)
m_mutex == Lock("m_mutex", 0)
m_mutexForLocks == Lock("m_mutexForLocks", 0)
m_sendMutexesMapMutex == Lock("m_sendMutexesMapMutex", 0)
m_clientProtocolsMutex == Lock("m_clientProtocolsMutex", 0)
clientsMutex_ == Lock("clientsMutex_", 0)
\* the std::mutex getSendMutex(f) returns
sendLock(f) == Lock("sendLock", f)

Threads == {"reactor", "keepalive"}

\* a thread outside every handler: op is the handler it is in, want the lock
\* it is about to take, held the locks it owns, gone the locks it owned when
\* their std::mutex was destroyed, ret the callers to return to
IdleT == [op |-> "idle", fd |-> 0, frame |-> NoFrame, lo |-> 1, todo |-> {},
          tnow |-> 0, want |-> NoLock, held |-> {}, gone |-> {}, ret |-> <<>>]

ThreadAt(t) == IF t = "reactor" THEN rpc ELSE kpc

Becomes(t, r) ==
    IF t = "reactor" THEN rpc' = r /\ kpc' = kpc ELSE kpc' = r /\ rpc' = rpc

\* thread t is inside op and owns the lock op starts with
At(t, op) == ThreadAt(t).op = op /\ ThreadAt(t).want = NoLock

\* std::mutex: owned by at most one thread, and not recursive
LockFree(l) == l \notin rpc.held \cup kpc.held

Unlock(r, l) == [r EXCEPT !.held = @ \ {l}, !.gone = @ \ {l}]

\* the std::mutex of lock l is destroyed: a new one under the same key is
\* another object, which the thread does not own
Destroyed(r, l) ==
    IF l \in r.held THEN [r EXCEPT !.held = @ \ {l}, !.gone = @ \cup {l}] ELSE r

\* call a function that starts by locking lock; come back to op back
Call(r, op, lock, back) ==
    [r EXCEPT !.op = op, !.want = lock, !.ret = <<back>> \o @]

Return(r) ==
    IF r.ret = <<>> THEN [IdleT EXCEPT !.held = r.held]
    ELSE [r EXCEPT !.op = Head(r.ret), !.ret = Tail(@)]

lkFixed == <<config, m_running, stopper, proto, redis, nframes, wire,
             m_clientProtocols, m_clientBuffers, closers>>
lkTable == <<osOpen, io, m_clients, m_lastActive, onCloseCalls>>
lkSend == <<m_sendBuffers, m_sendMutexes>>
lkApp == <<m_clientSendMutexes, wsClients>>

\* the lock_guard constructor the thread stands at
LkAcquire(t) ==
    LET r == ThreadAt(t)
    IN  /\ r.want # NoLock
        /\ LockFree(r.want)
        /\ Becomes(t, [r EXCEPT !.held = @ \cup {r.want}, !.want = NoLock])
        /\ UNCHANGED <<lkFixed, lkTable, lkSend, lkApp, now, nevents>>

\* handleAccept: accept() returned f
LkAccept(f) ==
    /\ Deliver
    /\ rpc.op = "idle"
    /\ ~osOpen[f]
    /\ osOpen' = [osOpen EXCEPT ![f] = TRUE]
    /\ rpc' = [IdleT EXCEPT !.op = "handleAccept", !.fd = f, !.want = m_mutex]
    /\ UNCHANGED <<lkFixed, io, m_clients, m_lastActive, onCloseCalls, lkSend,
                   lkApp, now, kpc>>

\* handleAccept: the block under m_mutex, then addfd
LkAcceptInsert ==
    /\ At("reactor", "handleAccept")
    /\ m_clients' = m_clients \cup {rpc.fd}
    /\ m_lastActive' = [m_lastActive EXCEPT ![rpc.fd] = now]
    /\ io' = addfd(io, rpc.fd, "R")
    /\ onCloseCalls' = [onCloseCalls EXCEPT ![rpc.fd] = 0]
    /\ rpc' = [Unlock(rpc, m_mutex) EXCEPT !.op = "onClientConnected",
                                           !.want = m_sendMutexesMapMutex]
    /\ UNCHANGED <<lkFixed, osOpen, lkSend, lkApp, now, nevents, kpc>>

\* ApplicationServer::onClientConnected
LkConnected ==
    /\ At("reactor", "onClientConnected")
    /\ m_clientSendMutexes' = m_clientSendMutexes \cup {rpc.fd}
    /\ rpc' = Return(Unlock(rpc, m_sendMutexesMapMutex))
    /\ UNCHANGED <<lkFixed, lkTable, lkSend, wsClients, now, nevents, kpc>>

\* handleRead: recv() returned 0, or the ERROR event: handleClose(f)
LkReadEof(f) ==
    /\ Deliver
    /\ rpc.op = "idle"
    /\ osOpen[f] /\ io[f] # "none"
    /\ rpc' = [IdleT EXCEPT !.op = "handleClose", !.fd = f, !.want = m_mutex]
    /\ UNCHANGED <<lkFixed, lkTable, lkSend, lkApp, now, kpc>>

\* handleClose under m_mutex: the early return, or on to the inner block
LkHandleCloseCheck(t) ==
    LET r == ThreadAt(t)
    IN  /\ At(t, "handleClose")
        /\ Becomes(t, IF r.fd \in m_clients
                      THEN [r EXCEPT !.op = "handleClose.locks",
                                     !.want = m_mutexForLocks]
                      ELSE Return(Unlock(r, m_mutex)))
        /\ UNCHANGED <<lkFixed, lkTable, lkSend, lkApp, now, nevents>>

\* handleClose: the inner block under m_mutexForLocks
LkHandleCloseErase(t) ==
    LET r == ThreadAt(t)
    IN  /\ At(t, "handleClose.locks")
        /\ m_sendBuffers' = [m_sendBuffers EXCEPT ![r.fd] = <<>>]
        /\ m_sendMutexes' = m_sendMutexes \ {r.fd}
        /\ rpc' = Destroyed(IF t = "reactor"
                             THEN [Unlock(r, m_mutexForLocks) EXCEPT !.op = "handleClose.rest"]
                             ELSE rpc, sendLock(r.fd))
        /\ kpc' = Destroyed(IF t = "keepalive"
                             THEN [Unlock(r, m_mutexForLocks) EXCEPT !.op = "handleClose.rest"]
                             ELSE kpc, sendLock(r.fd))
        /\ UNCHANGED <<lkFixed, lkTable, lkApp, now, nevents>>

\* handleClose: removefd, close, the two erases, m_onClose; m_mutex released
LkHandleCloseRest(t) ==
    LET r == ThreadAt(t)
    IN  /\ At(t, "handleClose.rest")
        /\ io' = removefd(io, r.fd)
        /\ osOpen' = OsClose(osOpen, r.fd)
        /\ m_clients' = m_clients \ {r.fd}
        /\ m_lastActive' = [m_lastActive EXCEPT ![r.fd] = NoTime]
        /\ onCloseCalls' = [onCloseCalls EXCEPT ![r.fd] = @ + 1]
        /\ Becomes(t, Return(Unlock(r, m_mutex)))
        /\ UNCHANGED <<lkFixed, lkSend, lkApp, now, nevents>>

\* run(): the WRITE event: lock_guard(getSendMutex(fd)), flushSendBuffer(fd)
LkWrite(f) ==
    /\ rpc.op = "idle"
    /\ osOpen[f] /\ io[f] = "RW"
    /\ rpc' = [IdleT EXCEPT !.op = "getSendMutex", !.fd = f,
                            !.want = m_mutexForLocks]
    /\ UNCHANGED <<lkFixed, lkTable, lkSend, lkApp, now, nevents, kpc>>

\* getSendMutex under m_mutexForLocks; its caller then locks the result
LkGetSendMutex(t) ==
    LET r == ThreadAt(t)
    IN  /\ At(t, "getSendMutex")
        /\ m_sendMutexes' = m_sendMutexes \cup {r.fd}
        /\ Becomes(t, [Unlock(r, m_mutexForLocks) EXCEPT !.op = "flushSendBuffer",
                                                         !.want = sendLock(r.fd)])
        /\ UNCHANGED <<lkFixed, lkTable, m_sendBuffers, lkApp, now, nevents>>

\* under the send lock: sendData queues its chunk (the WRITE event has none)
\* and flushSendBuffer runs; a hard send error calls handleClose
LkFlush(t) ==
    LET r == ThreadAt(t)
        q == IF r.frame = NoFrame THEN m_sendBuffers[r.fd]
             ELSE Append(m_sendBuffers[r.fd], [WholeFrame(r.frame) EXCEPT !.lo = r.lo])
    IN  /\ At(t, "flushSendBuffer")
        /\ \E fl \in flushSendBuffer(osOpen[r.fd], q) :
              /\ m_sendBuffers' = [m_sendBuffers EXCEPT ![r.fd] = fl.q]
              /\ io' = IF fl.err THEN io
                       ELSE IF r.frame = NoFrame THEN IoAfterFlush(io, r.fd, fl)
                       ELSE IoAfterSendData(io, r.fd, fl)
              /\ Becomes(t, IF fl.err
                            THEN Call(r, "handleClose", m_mutex, "flushSendBuffer.closed")
                            ELSE Return(Unlock(r, sendLock(r.fd))))
        /\ UNCHANGED <<lkFixed, osOpen, m_clients, m_lastActive, onCloseCalls,
                       m_sendMutexes, lkApp, now, nevents>>

\* handleClose came back into flushSendBuffer: the rest of sendData, and the
\* lock_guard of the caller unlocks the send lock.  Unlocking a destroyed
\* std::mutex is undefined; the outcome followed is the one where the thread
\* goes on, the others (a crash, a corrupted heap) end the run.
LkFlushClosed(t) ==
    LET r == ThreadAt(t)
    IN  /\ At(t, "flushSendBuffer.closed")
        /\ io' = IF r.frame # NoFrame /\ m_sendBuffers[r.fd] # <<>>
                 THEN modifyFd(io, r.fd, "RW") ELSE io
        /\ Becomes(t, Return(Unlock(r, sendLock(r.fd))))
        /\ UNCHANGED <<lkFixed, osOpen, m_clients, m_lastActive, onCloseCalls,
                       lkSend, lkApp, now, nevents>>

\* the timer fires: checkHeartbeats
LkTickStart ==
    /\ Deliver
    /\ kpc.op = "idle"
    /\ kpc' = [IdleT EXCEPT !.op = "checkHeartbeats", !.want = m_mutex]
    /\ UNCHANGED <<lkFixed, lkTable, lkSend, lkApp, now, rpc>>

\* checkHeartbeats under m_mutex: now is sampled, the loop starts
LkTickSample ==
    /\ At("keepalive", "checkHeartbeats")
    /\ kpc' = [kpc EXCEPT !.op = "scan", !.todo = m_clients, !.tnow = now]
    /\ UNCHANGED <<lkFixed, lkTable, lkSend, lkApp, now, nevents, rpc>>

\* one iteration, heartbeat enabled: sendHeartbeat -> sendData -> getSendMutex
LkTickHeartbeat(f) ==
    /\ At("keepalive", "scan")
    /\ f \in kpc.todo
    /\ f \in m_clients
    /\ ~HeartbeatExpired(m_lastActive[f], kpc.tnow)
    /\ HeartbeatOn
    /\ Len(m_sendBuffers[f]) < MaxFrames
    /\ kpc' = Call([kpc EXCEPT !.todo = @ \ {f}, !.fd = f, !.lo = 1,
                               !.frame = [k |-> "hb", n |-> 0, by |-> 0]],
                   "getSendMutex", m_mutexForLocks, "scan")
    /\ UNCHANGED <<lkFixed, lkTable, lkSend, lkApp, now, nevents, rpc>>

\* the loop is over: m_mutex is released
LkTickEnd ==
    /\ At("keepalive", "scan")
    /\ kpc.todo = {}
    /\ kpc' = Return(Unlock(kpc, m_mutex))
    /\ UNCHANGED <<lkFixed, lkTable, lkSend, lkApp, now, nevents, rpc>>

\* handleRead on an OPEN WebSocket connection: a TEXT frame reaches
\* WebSocketServer::onPacketReceived
LkText(f) ==
    /\ Deliver
    /\ rpc.op = "idle"
    /\ isWebSocket
    /\ osOpen[f] /\ io[f] # "none"
    /\ rpc' = [IdleT EXCEPT !.op = "onPacketReceived", !.fd = f,
                            !.frame = [k |-> "bc", n |-> 0, by |-> f],
                            !.want = clientsMutex_]
    /\ UNCHANGED <<lkFixed, lkTable, lkSend, lkApp, now, kpc>>

\* onPacketReceived under clientsMutex_: join the broadcast set; broadcast()
LkJoin ==
    /\ At("reactor", "onPacketReceived")
    /\ wsClients' = wsClients \cup {rpc.fd}
    /\ rpc' = [Unlock(rpc, clientsMutex_) EXCEPT !.op = "broadcast.pack",
                                                 !.want = m_clientProtocolsMutex]
    /\ UNCHANGED <<lkFixed, lkTable, lkSend, m_clientSendMutexes, now, nevents, kpc>>

\* broadcast under m_clientProtocolsMutex: the frame is packed
LkBroadcastPack ==
    /\ At("reactor", "broadcast.pack")
    /\ rpc' = [Unlock(rpc, m_clientProtocolsMutex) EXCEPT !.op = "broadcast.copy",
                                                          !.want = clientsMutex_]
    /\ UNCHANGED <<lkFixed, lkTable, lkSend, lkApp, now, nevents, kpc>>

\* broadcast under clientsMutex_: the fd list is copied
LkBroadcastCopy ==
    /\ At("reactor", "broadcast.copy")
    /\ rpc' = [Unlock(rpc, clientsMutex_) EXCEPT !.op = "broadcast.send",
                                                 !.todo = wsClients]
    /\ UNCHANGED <<lkFixed, lkTable, lkSend, lkApp, now, nevents, kpc>>

\* broadcast: ::send to the next recipient; what the kernel did not take goes
\* through sendBusinessData -> sendData
LkBroadcastSend ==
    /\ At("reactor", "broadcast.send")
    /\ rpc.todo # {}
    /\ LET g == Head(Ascending(rpc.todo))
           c == WholeFrame(rpc.frame)
           next == [rpc EXCEPT !.todo = @ \ {g}]
       IN  \E r \in SendResults(osOpen[g], c) :
              rpc' = IF r.r = "again" \/ (r.r = "sent" /\ r.n < PieceLen(c))
                     THEN Call([next EXCEPT !.fd = g, !.lo = r.n + 1],
                               "getSendMutex", m_mutexForLocks, "broadcast.send")
                     ELSE next
    /\ UNCHANGED <<lkFixed, lkTable, lkSend, lkApp, now, nevents, kpc>>

LkBroadcastEnd ==
    /\ At("reactor", "broadcast.send")
    /\ rpc.todo = {}
    /\ rpc' = Return(rpc)
    /\ UNCHANGED <<lkFixed, lkTable, lkSend, lkApp, now, nevents, kpc>>

InitLocks ==
    /\ \E a \in Applications :
          /\ isWebSocket = a.ws
          /\ respRegistered = a.resp
          /\ m_heartbeatEnabled = a.hb
    /\ now = 0
    /\ nframes = 0
    /\ nevents = 0
    /\ osOpen = [f \in Fds |-> FALSE]
    /\ wire = [f \in Fds |-> <<>>]
    /\ io = [f \in Fds |-> "none"]
    /\ m_clients = {}
    /\ m_lastActive = [f \in Fds |-> NoTime]
    /\ m_sendBuffers = [f \in Fds |-> <<>>]
    /\ m_sendMutexes = {}
    /\ m_clientProtocols = [f \in Fds |-> "none"]
    /\ m_clientSendMutexes = {}
    /\ m_clientBuffers = {}
    /\ wsClients = {}
    /\ closers = [f \in Fds |-> [a |-> 0, b |-> 0]]
    /\ rpc = IdleT
    /\ kpc = IdleT
    /\ m_running = TRUE
    /\ stopper = "none"
    /\ onCloseCalls = [f \in Fds |-> 0]
    /\ proto = NoProto
    /\ redis = NoRedis

NextLocks ==
    \/ \E t \in Threads : LkAcquire(t)
    \/ \E f \in Fds : LkAccept(f)
    \/ LkAcceptInsert
    \/ LkConnected
    \/ \E f \in Fds : LkReadEof(f)
    \/ \E t \in Threads : LkHandleCloseCheck(t)
    \/ \E t \in Threads : LkHandleCloseErase(t)
    \/ \E t \in Threads : LkHandleCloseRest(t)
    \/ \E f \in Fds : LkWrite(f)
    \/ \E t \in Threads : LkGetSendMutex(t)
    \/ \E t \in Threads : LkFlush(t)
    \/ \E t \in Threads : LkFlushClosed(t)
    \/ LkTickStart
    \/ LkTickSample
    \/ \E f \in Fds : TickEvict(f)
    \/ \E f \in Fds : LkTickHeartbeat(f)
    \/ \E f \in Fds : TickPass(f)
    \/ LkTickEnd
    \/ \E f \in Fds : LkText(f)
    \/ LkJoin
    \/ LkBroadcastPack
    \/ LkBroadcastCopy
    \/ LkBroadcastSend
    \/ LkBroadcastEnd
    \/ Advance

SpecLocks == InitLocks /\ [][NextLocks]_vars

\* ------------------------------------------------------------------ C32
\* the locks that guard the connection table, the two send-lock maps, the
\* protocol map and the broadcast set
MapLocks ==
    {m_mutex, m_mutexForLocks, m_sendMutexesMapMutex, m_clientProtocolsMutex,
     clientsMutex_}

HoldsTwoMapLocks(t) == Cardinality(ThreadAt(t).held \cap MapLocks) >= 2

\* the broadcast-set lock is held only while the reactor joins the set or
\* copies the fd list, never while it sends
BroadcastLockOnlyWhileCopying ==
    \A t \in Threads :
       clientsMutex_ \in ThreadAt(t).held =>
          /\ t = "reactor"
          /\ rpc.op \in {"onPacketReceived", "broadcast.copy"}
          /\ rpc.held = {clientsMutex_}

\* C32: no thread holds two of the locks guarding the connection table, the
\* send-lock maps, the protocol map and the broadcast set at the same time,
\* and broadcast holds the broadcast-set lock only while it copies the fd
\* list
C32_NeverTwoMapLocks ==
    /\ \A t \in Threads : ~HoldsTwoMapLocks(t)
    /\ BroadcastLockOnlyWhileCopying

\* ------------------------------------------------------------------ C33
\* the fds of live connections: in the connection table, socket open
LiveFds == {f \in m_clients : osOpen[f]}

\* the recipient broadcast is about to send to
BroadcastRecipient == Head(rpc.todo)

\* an OPEN WebSocket connection is in the broadcast set
JoinsWhenOpen ==
    \A f \in LiveFds :
       isWebSocket /\ m_clientProtocols[f] = "OPEN" /\ rpc.op = "idle" => f \in wsClients

\* C33: the broadcast set holds only fds of live connections of the
\* connection table, so broadcast never sends to a closed fd
C33_BroadcastSetLive ==
    /\ wsClients \subseteq LiveFds
    /\ rpc.op \in {"bcast", "fallback"} => osOpen[BroadcastRecipient]

\* ------------------------------------------------------------------ C34
\* t stands at a lock_guard whose mutex is owned by thread u
WaitsFor(t, u) ==
    /\ ThreadAt(t).want # NoLock
    /\ ThreadAt(t).want \in ThreadAt(u).held

\* t locks a std::mutex it already owns
SelfRelock(t) == WaitsFor(t, t)

\* two threads wait for a lock the other owns
LockOrderCycle ==
    \E t, u \in Threads : t # u /\ WaitsFor(t, u) /\ WaitsFor(u, t)

\* C34: no thread blocks for ever on m_mutex, m_mutexForLocks or a send
\* lock: no thread relocks a mutex it owns and no two threads wait for each
\* other, under every interleaving of the reactor and the keepalive thread,
\* failed sends inside flushSendBuffer included
C34_NoThreadBlocksForever ==
    /\ \A t \in Threads : ~SelfRelock(t)
    /\ ~LockOrderCycle

NoLockOrderCycle == ~LockOrderCycle

\* ------------------------------------------------------------------ C35
\* thread t is inside the scope of a lock_guard on the send lock of f
InSendLockScope(t, f) == sendLock(f) \in ThreadAt(t).held \cup ThreadAt(t).gone

\* C35: while a thread is inside the scope of its lock_guard on the send
\* lock of f, the std::mutex of f in m_sendMutexes is the one it locked: it
\* was not erased, also not by a handleClose(f) called from flushSendBuffer
C35_SendLockOutlivesHolder ==
    \A t \in Threads : \A f \in Fds :
       InSendLockScope(t, f) =>
          /\ sendLock(f) \notin ThreadAt(t).gone
          /\ f \in m_sendMutexes

\* ------------------------------------------------------------------ C36
\* this step calls close(2) on fd number f
CallsClose(f) ==
    \/ CloserClose(f)
    \/ TickEvict(f)
    \/ f \in m_clients /\ HandleReadClose(f)
    \/ f \in m_clients /\ rpc.fd = f /\ FlushClose
    \/ f \in m_clients /\ StopEnd

\* every close(2) is on an open descriptor
ClosesOnlyOpenFds == [][\A f \in Fds : CallsClose(f) => osOpen[f]]_vars

\* a delayed cleanup is started for a CLOSED instance only, so one that
\* finds an OPEN instance has met a newer connection on the same fd number
CloserMeetsOwnConnection ==
    [][\A f \in Fds : CloserClose(f) => m_clientProtocols[f] # "OPEN"]_vars

\* C36: no fd number is closed twice in one connection lifetime (every
\* close(2) finds the descriptor open), and a delayed cleanup never closes
\* or erases the instance of a newer connection that reused the fd number
C36_ClosedExactlyOnce ==
    [][\A f \in Fds :
          /\ CallsClose(f) => osOpen[f]
          /\ CloserClose(f) => m_clientProtocols[f] # "OPEN"]_vars

\* ------------------------------------------------------------------ C37
\* the accept of fd number f leaves the new connection an empty send queue
AcceptFindsEmptyQueue ==
    [][\A f \in Fds : HandleAccept(f) => m_sendBuffers'[f] = <<>>]_vars

\* the accept of fd number f leaves the new connection without an instance
AcceptFindsNoInstance ==
    [][\A f \in Fds : HandleAccept(f) => m_clientProtocols'[f] = "none"]_vars

\* PureRedisProtocol keeps no received bytes of a connection that is closed;
\* handleAccept does not touch the protocol, so what is kept at the close is
\* what the next connection on the fd number finds
RespBufferDroppedAtClose ==
    \A f \in Fds : ~redis.open[f] => redis.m_clientBuffers[f] = <<>>

\* C37: a newly accepted connection starts with an empty send queue and
\* without a protocol instance, also when its fd number was used by an
\* earlier connection closed by handleClose, eviction or closeClientConnection
C37_AcceptStartsFresh ==
    [][\A f \in Fds :
          HandleAccept(f) =>
             /\ m_sendBuffers'[f] = <<>>
             /\ m_clientProtocols'[f] = "none"]_vars

\* ------------------------------------------------------------------ C38
\* after this step frame id is on f's stream whole, or what the kernel did
\* not take of it is in f's send queue, or f is closed or being closed
WholeOrRetainedOrClosed(f, id) ==
    \/ wire'[f] = WireAppend(wire[f], WholeFrame(id))
    \/ \E j \in DOMAIN m_sendBuffers'[f] : m_sendBuffers'[f][j].id = id
    \/ ~osOpen'[f]
    \/ closers'[f].a > 0

\* C38: a handshake response, a CLOSE frame or a RESP reply written outside
\* the send queue is never cut short or dropped on a connection that stays
\* open: when the kernel takes only part of it, or nothing (EAGAIN), the
\* rest is retained for a later write or the connection is closed
C38_NoSilentTruncation ==
    [][\A f \in Fds :
          /\ ReadResp(f) =>
                WholeOrRetainedOrClosed(f, [k |-> "reply", n |-> nframes + 1, by |-> 0])
          /\ ReadHandshake(f, "hs") =>
                WholeOrRetainedOrClosed(f, [k |-> "101", n |-> 0, by |-> f])
          /\ ReadFrame(f, "badop") =>
                WholeOrRetainedOrClosed(f, [k |-> "1003", n |-> 0, by |-> f])]_vars

\* the same for the handshake response alone
HandshakeResponseNeverTruncated ==
    [][\A f \in Fds :
          ReadHandshake(f, "hs") =>
             WholeOrRetainedOrClosed(f, [k |-> "101", n |-> 0, by |-> f])]_vars

\* ------------------------------------------------------------------ C39
\* the step left the connection's instance and PureRedisProtocol as
\* ApplicationServer::onDataReceived leaves them when it is called with
\* every byte of the chunk recv() returned
HandedEveryByte(chunk, req, rest) ==
    LET all == ApplicationOnDataReceived(
                  [proto EXCEPT !.req = req, !.rest = rest, !.nreads = @ + 1],
                  redis, RouterFd, chunk, respRegistered)
    IN  proto' = all.p /\ redis' = all.r

\* C39: on a connection that has a WebSocket instance, every read hands the
\* application exactly the bytes recv() returned, wherever the kernel cuts
\* the stream: handleRead removes no byte of a frame, also when the chunk
\* starts inside a frame with FA FB FC FD
C39_FramedBytesUntouched ==
    [][proto.state_ # "none"
       => /\ RouterReadRest => HandedEveryByte(proto.rest, proto.req, <<>>)
          /\ \A fr \in FramedFrames, cut \in 1..16 :
                RouterReadFrame(fr, cut)
                => HandedEveryByte(SubSeq(fr, 1, cut), proto.req,
                                   SubSeq(fr, cut + 1, Len(fr)))]_vars

\* ------------------------------------------------------------------ C40
\* f is open with queued bytes and WRITE interest
DrainDue(f) == osOpen[f] /\ m_sendBuffers[f] # <<>> /\ io[f] = "RW"

\* f's queue is empty and its WRITE interest cleared, or f is closed
DrainedOrClosed(f) == (m_sendBuffers[f] = <<>> /\ io[f] # "RW") \/ ~osOpen[f]

\* C40: when f has queued bytes and WRITE interest and the kernel reports f
\* writable again and again, the reactor eventually empties the queue and
\* clears WRITE interest (or f is closed), also when every report for f
\* carries READ together with WRITE
C40_QueueEventuallyDrained ==
    \A f \in Fds : DrainDue(f) ~> DrainedOrClosed(f)

====
